---- MODULE Spec2Model ----
(***************************************************************************)
(* Resilient invocation layer of the LyuGitVSCodeEx extension: the retry   *)
(* loops around git commands (GitBase / RepoSync runGitCommandWithRetry)   *)
(* and around GitHub REST calls (GitHubApi / GitHubHelper                  *)
(* githubRequestWithProgress), with the process executor (runGitCommand)   *)
(* and the remote call client (githubRequest) they wrap; and the           *)
(* WorkspaceManager that decides which workspace folder an operation runs  *)
(* against (specification SpecResolver).  Further specifications over the  *)
(* same variables: SpecPolicy (the timeout of each attempt), SpecOperation *)
(* (initRepo, addRemoteAndPush, RepoSync.addRemote step by step),          *)
(* SpecSecrets and SpecSecretsOverlap (SecretStorage), SpecRemote          *)
(* (parseGitHubUrl), SpecCommands (command handlers and webview buttons)   *)
(* SpecSuspension (child processes and requests with their timeouts),      *)
(* SpecRequest (one githubRequest call, event by event), SpecRename        *)
(* (editSecretDialog renaming a credential) and SpecTags (createTag called *)
(* again while a call is in progress).                                     *)
(*                                                                         *)
(* Strings are sequences of characters (one-character strings; a CJK      *)
(* character is written as its code point, "U64CD"), so that toLowerCase   *)
(* and includes are computed and not assumed.                              *)
(***************************************************************************)
EXTENDS Integers, Sequences, FiniteSets, TLC

VARIABLES
    settings,     \* the workflowGenerator.network configuration section
    loop,         \* which retry loop the current invocation runs
    pc,           \* position of the invocation
    config,       \* the loop's local `config`, read once at its start
    i,            \* the loop counter
    lastError,    \* the loop's local `lastError`
    cancelled,    \* the closure flag set by onCancellationRequested
    attempts,     \* units of work started by this invocation
    sleeps,       \* inter-attempt delays started by this invocation
    history,      \* per attempt: the event that ended it and what the unit of work produced
    progressLog,  \* messages passed to progress.report, one per attempt
    shown,        \* messages passed to vscode.window.showErrorMessage
    returned,     \* what the invocation returned to its caller
    thrown,       \* what the invocation threw to its caller
    cancelAt,     \* attempts started when cancellation was requested
    cancelInFlight, \* cancellation was requested while a request was outstanding
    folders,      \* vscode.workspace.workspaceFolders, by path
    gitRepos,     \* the paths in which `git rev-parse --git-dir` succeeds
    activeEditor, \* the path holding the file of vscode.window.activeTextEditor
    lastSelectedFolder, \* WorkspaceManager.lastSelectedFolder
    currentFolder, \* GitBase.currentFolder of the operation's object
    rpc,          \* position of the operation that is resolving its folder
    call,         \* entry point and options of the resolution, and the memory it started with
    steps,        \* what the resolution consulted, in order
    items,        \* the items of the quick pick it showed
    prompts,      \* quick picks shown by this resolution
    resolverError, \* the message the resolution passed to showErrorMessage
    via,          \* the return statement the resolution left by
    target,       \* the folder the resolution returned
    commands,     \* units of work the operation issued after the resolution
    stale,        \* the remembered folder was missing from workspaceFolders at some resolution
    timeoutSettings, \* workflowGenerator.git.commandTimeout and workflowGenerator.network.timeout
    timeoutLog,   \* per attempt of the invocation: the timeout its unit of work ran under
    op,           \* the operation the user invoked
    frame,        \* the function of it that is running
    nested,       \* initRepo was called by addRemoteAndPush
    opc,          \* the await the running function is at
    issued,       \* the git commands the operation has run: command, cwd, exit
    messages,     \* what it passed to showInformationMessage / showErrorMessage
    resolved,     \* the folders the resolver returned to it
    dismissedAt,  \* commands issued when the user first dismissed a prompt of it, or -1
    dismissedShown, \* messages shown by then
    failedAt,     \* commands issued when a command of it first failed unrecovered, or -1
    lastFailure,  \* the message of the last such failure
    gitignoreFolder, \* currentFolder of the GitignoreOps object held by GitOperations
    written,      \* the folders createGitignore wrote a .gitignore into
    secretsReady, \* SecretStorage.secrets is set (initialize was called)
    vault,        \* what the host's secret storage holds under STORAGE_KEY
    now,          \* Date.now()
    calls,        \* the saveSecret / deleteSecret calls in progress
    writes,       \* completed secrets.store calls
    storageErrors, \* messages SecretStorage passed to showErrorMessage
    remoteUrl,    \* what `git remote get-url origin` printed, trimmed
    remoteParts,  \* how that URL was put together
    parsed,       \* what parseGitHubUrl made of it
    disabled,     \* the commands whose webview button is disabled
    inFlight,     \* the command handlers that were started and have not returned
    waits,        \* the child processes spawned and the HTTP requests issued
    request,      \* the https request of one githubRequest call
    promise,      \* the promise githubRequest returned
    settleCalls,  \* what the call's handlers passed to resolve and reject, in order
    dialog,       \* editSecretDialog renaming a credential
    tagFolder,    \* currentFolder of the GitTagOps object
    tagOps        \* the createTag calls in progress on that object

vars == <<settings, loop, pc, config, i, lastError, cancelled, attempts, sleeps,
          history, progressLog, shown, returned, thrown, cancelAt, cancelInFlight>>

wvars == <<folders, gitRepos, activeEditor, lastSelectedFolder, currentFolder, rpc, call,
           steps, items, prompts, resolverError, via, target, commands, stale>>

----------------------------------------------------------------------------
(* Bounds *)

MaxRetryCount == 3

RetryCounts == (0 - 1) .. MaxRetryCount

MaxFolders == 2

MaxTime == 2

MaxInFlight == 2

MaxWaits == 3

----------------------------------------------------------------------------
(* Variables by component *)

pvars == <<timeoutSettings, timeoutLog>>

ovars == <<op, frame, nested, opc, issued, messages, resolved, dismissedAt, dismissedShown,
           failedAt, lastFailure, gitignoreFolder, written>>

svars == <<secretsReady, vault, now, calls, writes, storageErrors>>

\* what the retry loops and the resolver leave alone
uvars == <<remoteUrl, remoteParts, parsed>>

cvars == <<disabled, inFlight>>

rvars == <<request, promise, settleCalls>>

\* the components added last
tvars == <<tagFolder, tagOps>>

yvars == <<rvars, dialog, tvars>>

xvars == <<pvars, ovars, svars, uvars, cvars, waits, yvars>>

\* the resolver's variables an operation's own steps leave alone
resolverOnly == <<folders, activeEditor, lastSelectedFolder, rpc, call, steps, items, prompts,
          resolverError, via, target, commands, stale>>

----------------------------------------------------------------------------
(* String primitives *)

UpperCase ==
    <<"A", "B", "C", "D", "E", "F", "G", "H", "I", "J", "K", "L", "M",
      "N", "O", "P", "Q", "R", "S", "T", "U", "V", "W", "X", "Y", "Z">>

LowerCase ==
    <<"a", "b", "c", "d", "e", "f", "g", "h", "i", "j", "k", "l", "m",
      "n", "o", "p", "q", "r", "s", "t", "u", "v", "w", "x", "y", "z">>

LowerChar(c) ==
    IF \E k \in 1..26 : UpperCase[k] = c
    THEN LowerCase[CHOOSE k \in 1..26 : UpperCase[k] = c]
    ELSE c

\* String.prototype.toLowerCase
ToLowerCase(s) == [k \in 1..Len(s) |-> LowerChar(s[k])]

\* String.prototype.includes
Includes(s, pat) ==
    \E k \in 1..(Len(s) - Len(pat) + 1) : SubSeq(s, k, k + Len(pat) - 1) = pat

IsWhitespace(c) == c \in {" ", "\n", "\t", "\r"}

RECURSIVE TrimStart(_)
TrimStart(s) ==
    IF s # <<>> /\ IsWhitespace(Head(s)) THEN TrimStart(Tail(s)) ELSE s

RECURSIVE TrimEnd(_)
TrimEnd(s) ==
    IF s # <<>> /\ IsWhitespace(s[Len(s)]) THEN TrimEnd(SubSeq(s, 1, Len(s) - 1)) ELSE s

\* String.prototype.trim
Trim(s) == TrimEnd(TrimStart(s))

DigitChars == <<"0", "1", "2", "3", "4", "5", "6", "7", "8", "9">>

RECURSIVE NatToString(_)
NatToString(n) ==
    IF n < 10 THEN <<DigitChars[n + 1]>>
    ELSE NatToString(n \div 10) \o <<DigitChars[(n % 10) + 1]>>

\* a number interpolated into a template literal
NumberToString(n) == IF n < 0 THEN <<"-">> \o NatToString(0 - n) ELSE NatToString(n)

----------------------------------------------------------------------------
(* Message texts of the source *)

GitTimeoutMessage ==
    <<"U64CD", "U4F5C", "U8D85", "U65F6", "UFF0C", "U8BF7", "U68C0", "U67E5", "U7F51", "U7EDC", "U8FDE", "U63A5">>

UnknownErrorMessage ==
    <<"U", "n", "k", "n", "o", "w", "n", " ", "e", "r", "r", "o", "r">>

CancelledMessage ==
    <<"U5DF2", "U53D6", "U6D88">>

RequestTimeoutMessage ==
    <<"U8BF7", "U6C42", "U8D85", "U65F6", "UFF0C", "U8BF7", "U68C0", "U67E5", "U7F51", "U7EDC", "U8FDE", "U63A5">>

NetworkErrorPrefix ==
    <<"U7F51", "U7EDC", "U9519", "U8BEF", ":", " ">>

RetryingPrefix ==
    <<"U91CD", "U8BD5", "U4E2D", " ", "(">>

KwTimeout ==
    <<"t", "i", "m", "e", "o", "u", "t">>

KwSsl ==
    <<"s", "s", "l">>

KwNetwork ==
    <<"n", "e", "t", "w", "o", "r", "k">>

KwUnableToAccess ==
    <<"u", "n", "a", "b", "l", "e", " ", "t", "o", " ", "a", "c", "c", "e", "s", "s">>

\* what `new Error(message)` carries
Error(m) == [message |-> m]

\* JavaScript null / undefined
Null == [isNull |-> TRUE]

\* the TypeError of reading `.message` of null
NullMessageTypeError == [typeError |-> "message of null"]

----------------------------------------------------------------------------
(* Inputs: what the operating system and the network can answer *)

StderrSslHandshake ==
    <<"S", "S", "L", " ", "h", "a", "n", "d", "s", "h", "a", "k", "e", " ", "f", "a", "i", "l", "e", "d">>

StderrNetworkTimeout ==
    <<"n", "e", "t", "w", "o", "r", "k", " ", "t", "i", "m", "e", "o", "u", "t">>

StderrPermissionDenied ==
    <<"p", "e", "r", "m", "i", "s", "s", "i", "o", "n", " ", "d", "e", "n", "i", "e", "d">>

StderrForbidden ==
    <<"u", "n", "a", "b", "l", "e", " ", "t", "o", " ", "a", "c", "c", "e", "s", "s", " ", "'", "r", "'", ":", " ", "e", "r", "r", "o", "r", ":", " ", "4", "0", "3">>

MessageSpawnFailed ==
    <<"s", "p", "a", "w", "n", " ", "g", "i", "t", " ", "E", "N", "O", "E", "N", "T">>

MessageCommandFailed ==
    <<"C", "o", "m", "m", "a", "n", "d", " ", "f", "a", "i", "l", "e", "d">>

ErrNotFound ==
    <<"E", "N", "O", "T", "F", "O", "U", "N", "D">>

ErrParse ==
    <<"P", "a", "r", "s", "e", " ", "E", "r", "r", "o", "r">>

ErrInvalidHeader ==
    <<"I", "n", "v", "a", "l", "i", "d", " ", "c", "h", "a", "r", "a", "c", "t", "e", "r">>

\* How execAsync(command, {cwd, timeout}) can end: stdout on exit 0, or an error
\* object {killed, stderr, message}.  `cause` is what really happened; the code
\* never sees it.
ExecResults ==
    { [ok |-> TRUE, killed |-> FALSE, stdout |-> <<"o", "k", "\n">>, stderr |-> <<>>,
       message |-> <<>>, cause |-> "none"],
      [ok |-> FALSE, killed |-> TRUE, stdout |-> <<>>, stderr |-> <<>>,
       message |-> MessageCommandFailed, cause |-> "deadline"],
      [ok |-> FALSE, killed |-> FALSE, stdout |-> <<>>, stderr |-> StderrSslHandshake,
       message |-> MessageCommandFailed, cause |-> "tls"],
      [ok |-> FALSE, killed |-> FALSE, stdout |-> <<>>, stderr |-> StderrNetworkTimeout,
       message |-> MessageCommandFailed, cause |-> "connectivity"],
      [ok |-> FALSE, killed |-> FALSE, stdout |-> <<>>, stderr |-> StderrPermissionDenied,
       message |-> MessageCommandFailed, cause |-> "authorization"],
      [ok |-> FALSE, killed |-> FALSE, stdout |-> <<>>, stderr |-> StderrForbidden,
       message |-> MessageCommandFailed, cause |-> "authorization"],
      [ok |-> FALSE, killed |-> FALSE, stdout |-> <<>>, stderr |-> <<>>,
       message |-> MessageSpawnFailed, cause |-> "spawn"] }

\* Response bodies and JSON.parse of each: the parsed value, or a SyntaxError.
JsonSyntaxError == [syntaxError |-> TRUE]

JsonParse(text) ==
    CASE text = "{\"total_count\":0}" -> [total_count |-> 0]
      [] text = "{\"message\":\"Server Error\"}" -> [message |-> "Server Error"]
      [] OTHER -> JsonSyntaxError

\* How one https.request can end: the response's 'end' event, the timeout
\* callback, the request's 'error' event, or https.request itself throwing.
RequestEvents ==
    { [kind |-> "end", status |-> 200, body |-> "{\"total_count\":0}", cause |-> "none"],
      [kind |-> "end", status |-> 204, body |-> "", cause |-> "none"],
      [kind |-> "end", status |-> 500, body |-> "{\"message\":\"Server Error\"}", cause |-> "none"],
      [kind |-> "end", status |-> 502, body |-> "<html>Bad Gateway</html>", cause |-> "none"],
      [kind |-> "timeout", message |-> <<>>, cause |-> "deadline"],
      [kind |-> "error", message |-> ErrNotFound, cause |-> "dns"],
      [kind |-> "error", message |-> ErrParse, cause |-> "framing"],
      [kind |-> "throw", message |-> ErrInvalidHeader, cause |-> "badInput"] }

----------------------------------------------------------------------------
(* Configuration *)

DefaultRetryCount == 3

DefaultCommandTimeout == 30000
DefaultTimeout == 15000
DefaultRetryDelay == 1500

Loops == {"GitBase", "RepoSync", "GitHubApi", "GitHubHelper"}

IsApi(l) == l \in {"GitHubApi", "GitHubHelper"}

\* getNetworkConfig / getConfig: the retry fields of the settings, read when called
GetNetworkConfig(s) == [retryCount |-> s.retryCount, retryDelay |-> s.retryDelay]

----------------------------------------------------------------------------
(* Units of work *)

\* `a || b` on strings: the empty string is falsy
OrElse(a, b) == IF a # <<>> THEN a ELSE b

\* runGitCommand: what it returns or throws for each way exec can end
RunGitCommand(ex) ==
    IF ex.ok
    THEN [ok |-> TRUE, value |-> [stdout |-> Trim(ex.stdout)], error |-> Null]
    ELSE IF ex.killed
         THEN [ok |-> FALSE, value |-> Null, error |-> Error(GitTimeoutMessage)]
         ELSE [ok |-> FALSE, value |-> Null,
               error |-> Error(OrElse(ex.stderr, OrElse(ex.message, UnknownErrorMessage)))]

\* the body handed to resolve by the 'end' handler
ParseBody(text) ==
    IF text = "" THEN Null
    ELSE IF JsonParse(text) = JsonSyntaxError THEN Null ELSE JsonParse(text)

\* githubRequest rejecting a response whose status is 400 or above
GithubRequestRejectsErrorStatus(ev) ==
    CASE ev.kind = "end" /\ ev.status < 400 ->
            [ok |-> TRUE, value |-> [status |-> ev.status, data |-> ParseBody(ev.body)],
             error |-> Null]
      [] ev.kind = "end" /\ ev.status >= 400 ->
            [ok |-> FALSE, value |-> Null, error |-> Error(NetworkErrorPrefix)]
      [] ev.kind = "timeout" ->
            [ok |-> FALSE, value |-> Null, error |-> Error(RequestTimeoutMessage)]
      [] ev.kind = "error" ->
            [ok |-> FALSE, value |-> Null, error |-> Error(NetworkErrorPrefix \o ev.message)]
      [] ev.kind = "throw" ->
            [ok |-> FALSE, value |-> Null, error |-> Error(ev.message)]

\* githubRequest rejecting where JSON.parse throws, instead of resolving with null
GithubRequestRejectsMalformed(ev) ==
    CASE ev.kind = "end" /\ (ev.body = "" \/ JsonParse(ev.body) # JsonSyntaxError) ->
            [ok |-> TRUE, value |-> [status |-> ev.status, data |-> ParseBody(ev.body)],
             error |-> Null]
      [] ev.kind = "end" /\ ev.body # "" /\ JsonParse(ev.body) = JsonSyntaxError ->
            [ok |-> FALSE, value |-> Null, error |-> Error(ErrParse)]
      [] ev.kind = "timeout" ->
            [ok |-> FALSE, value |-> Null, error |-> Error(RequestTimeoutMessage)]
      [] ev.kind = "error" ->
            [ok |-> FALSE, value |-> Null, error |-> Error(NetworkErrorPrefix \o ev.message)]
      [] ev.kind = "throw" ->
            [ok |-> FALSE, value |-> Null, error |-> Error(ev.message)]

\* githubRequest: how the promise settles for each way the request can end
GithubRequest(ev) ==
    CASE ev.kind = "end" ->
            [ok |-> TRUE, value |-> [status |-> ev.status, data |-> ParseBody(ev.body)],
             error |-> Null]
      [] ev.kind = "timeout" ->
            [ok |-> FALSE, value |-> Null, error |-> Error(RequestTimeoutMessage)]
      [] ev.kind = "error" ->
            [ok |-> FALSE, value |-> Null, error |-> Error(NetworkErrorPrefix \o ev.message)]
      [] ev.kind = "throw" ->
            [ok |-> FALSE, value |-> Null, error |-> Error(ev.message)]

Events(l) == IF IsApi(l) THEN RequestEvents ELSE ExecResults

UnitOfWork(l, ev) == IF IsApi(l) THEN GithubRequest(ev) ELSE RunGitCommand(ev)

----------------------------------------------------------------------------
(* The retry loops *)

\* the test applied to the lower-cased message of a failed git command
IsTransientMessage(msg) ==
    \/ Includes(msg, KwTimeout)
    \/ Includes(msg, KwSsl)
    \/ Includes(msg, KwNetwork)
    \/ Includes(msg, KwUnableToAccess)

\* LoopHead without the `if (cancelled) throw` line
LoopHeadIgnoresCancel(l, cfg, idx, isCancelled) ==
    IF ~(idx < cfg.retryCount) THEN "exhausted" ELSE "attempt"

\* Top of one loop iteration: leave the loop, give up because of cancellation,
\* or start the attempt.
LoopHead(l, cfg, idx, isCancelled) ==
    IF ~(idx < cfg.retryCount) THEN "exhausted"
    ELSE IF IsApi(l) /\ isCancelled THEN "cancelled"
    ELSE "attempt"

\* AfterAttempt with the success value stored instead of returned, so that the
\* loop goes on while attempts remain
AfterAttemptKeepsLooping(l, cfg, idx, out) ==
    IF out.ok
    THEN IF idx < cfg.retryCount - 1 THEN "sleep" ELSE "return"
    ELSE IF IsApi(l)
         THEN IF idx < cfg.retryCount - 1 THEN "sleep" ELSE "continue"
         ELSE IF /\ IsTransientMessage(ToLowerCase(out.error.message))
                 /\ idx < cfg.retryCount - 1
              THEN "sleep"
              ELSE "throw"

\* AfterAttempt with the message tested as thrown, not lower-cased
AfterAttemptCaseSensitive(l, cfg, idx, out) ==
    IF out.ok THEN "return"
    ELSE IF IsApi(l)
         THEN IF idx < cfg.retryCount - 1 THEN "sleep" ELSE "continue"
         ELSE IF /\ IsTransientMessage(out.error.message)
                 /\ idx < cfg.retryCount - 1
              THEN "sleep"
              ELSE "throw"

\* After the awaited unit of work settled: return its value, sleep and go on,
\* go on without sleeping, or rethrow.
AfterAttempt(l, cfg, idx, out) ==
    IF out.ok THEN "return"
    ELSE IF IsApi(l)
         THEN IF idx < cfg.retryCount - 1 THEN "sleep" ELSE "continue"
         ELSE IF /\ IsTransientMessage(ToLowerCase(out.error.message))
                 /\ idx < cfg.retryCount - 1
              THEN "sleep"
              ELSE "throw"

\* the argument of progress.report in iteration idx
ProgressMessage(idx, cfg) ==
    IF idx > 0
    THEN [message |-> RetryingPrefix \o NumberToString(idx) \o <<"/">>
                      \o NumberToString(cfg.retryCount) \o <<")", ".", ".", ".">>]
    ELSE [message |-> Null]

Nothing == [nothing |-> TRUE]

Terminal == {"Succeeded", "Failed", "Cancelled", "Rejected"}

\* `return result`: the value reaches the caller
Return(value) ==
    /\ pc' = "Succeeded"
    /\ returned' = value
    /\ UNCHANGED <<shown, thrown>>

\* A throw out of the loop.  In the git loops it reaches the caller; in
\* githubRequestWithProgress the outer catch reads error.message, shows it
\* unless it is the cancellation text, and returns null.
Throw(l, err, why) ==
    IF ~IsApi(l)
    THEN /\ pc' = "Failed"
         /\ thrown' = err
         /\ UNCHANGED <<shown, returned>>
    ELSE IF err = Null
         THEN /\ pc' = "Rejected"
              /\ thrown' = NullMessageTypeError
              /\ UNCHANGED <<shown, returned>>
         ELSE /\ pc' = IF why = "cancel" THEN "Cancelled" ELSE "Failed"
              /\ shown' = IF err.message # CancelledMessage
                          THEN Append(shown, err.message) ELSE shown
              /\ returned' = Null
              /\ UNCHANGED thrown

\* One pass through the top of the loop with counter idx.
EnterIteration(l, cfg, idx, err, isCancelled) ==
    LET h == LoopHead(l, cfg, idx, isCancelled) IN
    /\ i' = idx
    /\ CASE h = "attempt" ->
               /\ pc' = "Attempting"
               /\ attempts' = attempts + 1
               /\ progressLog' = IF IsApi(l)
                                 THEN Append(progressLog, ProgressMessage(idx, cfg))
                                 ELSE progressLog
               /\ UNCHANGED <<shown, returned, thrown>>
         [] h = "cancelled" ->
               /\ Throw(l, Error(CancelledMessage), "cancel")
               /\ UNCHANGED <<attempts, progressLog>>
         [] h = "exhausted" ->
               /\ Throw(l, err, "error")
               /\ UNCHANGED <<attempts, progressLog>>


----------------------------------------------------------------------------
(* WorkspaceManager: which folder an operation runs against.  A folder is  *)
(* known by its path (uri.fsPath), here a number.                          *)

Paths == 1 .. MaxFolders

\* `undefined`, as a folder
Undefined == 0

NoWorkspaceMessage ==
    <<"U8BF7", "U5148", "U6253", "U5F00", "U4E00", "U4E2A", "U5DE5", "U4F5C", "U533A">>
NoGitRepositoryMessage ==
    <<"U6CA1", "U6709", "U627E", "U5230", " ", "G", "i", "t", " ", "U4ED3", "U5E93">>

\* workspaceFolders[0] / infos[0].folder
First(fs) == CHOOSE f \in fs : \A g \in fs : f <= g

\* WorkspaceManager.isGitRepo
IsGitRepo(git, f) == f \in git

\* WorkspaceManager.getActiveEditorWorkspaceFolder
GetActiveEditorWorkspaceFolder(fs, ed) == IF ed \in fs THEN ed ELSE Undefined

\* the quick pick items built from the workspace infos
QuickPickItems(infos, git) ==
    {[folder |-> f, icon |-> IF IsGitRepo(git, f) THEN "repo" ELSE "folder"] : f \in infos}

\* how a resolution runs up to its first return or its quick pick
Returns(how, f, err, trace) ==
    [kind |-> "return", via |-> how, target |-> f, error |-> err, items |-> {}, steps |-> trace]

Picks(its, trace) ==
    [kind |-> "pick", via |-> "Pending", target |-> Undefined, error |-> <<>>,
     items |-> its, steps |-> trace \o <<"prompt">>]

\* selectWorkspaceFolder showing the quick pick even for a single remaining repository
SelectWorkspaceFolderAlwaysPrompts(fs, git, last, gitRepoOnly, rememberChoice) ==
    LET memory == IF rememberChoice THEN <<"remembered">> ELSE <<>>
        infos == IF gitRepoOnly THEN {f \in fs : IsGitRepo(git, f)} ELSE fs
        trace == memory \o (IF gitRepoOnly THEN <<"filter">> ELSE <<>>)
    IN  IF Cardinality(fs) = 0
        THEN Returns("NoWorkspace", Undefined, NoWorkspaceMessage, <<>>)
        ELSE IF Cardinality(fs) = 1
        THEN Returns("Single", First(fs), <<>>, <<>>)
        ELSE IF rememberChoice /\ last # Undefined /\ last \in fs
        THEN Returns("Remembered", last, <<>>, memory)
        ELSE IF gitRepoOnly /\ infos = {}
        THEN Returns("NoGitRepository", Undefined, NoGitRepositoryMessage, trace)
        ELSE Picks(QuickPickItems(infos, git), trace)

\* WorkspaceManager.selectWorkspaceFolder
SelectWorkspaceFolder(fs, git, last, gitRepoOnly, rememberChoice) ==
    LET memory == IF rememberChoice THEN <<"remembered">> ELSE <<>>
        infos == IF gitRepoOnly THEN {f \in fs : IsGitRepo(git, f)} ELSE fs
        trace == memory \o (IF gitRepoOnly THEN <<"filter">> ELSE <<>>)
    IN  IF Cardinality(fs) = 0
        THEN Returns("NoWorkspace", Undefined, NoWorkspaceMessage, <<>>)
        ELSE IF Cardinality(fs) = 1
        THEN Returns("Single", First(fs), <<>>, <<>>)
        ELSE IF rememberChoice /\ last # Undefined /\ last \in fs
        THEN Returns("Remembered", last, <<>>, memory)
        ELSE IF gitRepoOnly /\ infos = {}
        THEN Returns("NoGitRepository", Undefined, NoGitRepositoryMessage, trace)
        ELSE IF gitRepoOnly /\ Cardinality(infos) = 1
        THEN Returns("OnlyRepository", First(infos), <<>>, trace)
        ELSE Picks(QuickPickItems(infos, git), trace)

\* selectWorkspaceFolderSmart asking a lone folder to be a git repository
SelectWorkspaceFolderSmartChecksLoneFolder(fs, git, ed, last, gitRepoOnly) ==
    LET activeFolder == GetActiveEditorWorkspaceFolder(fs, ed)
        rest == SelectWorkspaceFolder(fs, git, last, gitRepoOnly, FALSE)
    IN  IF Cardinality(fs) = 0
        THEN Returns("NoWorkspace", Undefined, NoWorkspaceMessage, <<>>)
        ELSE IF Cardinality(fs) = 1 /\ (~gitRepoOnly \/ IsGitRepo(git, First(fs)))
        THEN Returns("Single", First(fs), <<>>, <<>>)
        ELSE IF Cardinality(fs) = 1
        THEN Returns("NoGitRepository", Undefined, NoGitRepositoryMessage, <<"filter">>)
        ELSE IF activeFolder # Undefined /\ (~gitRepoOnly \/ IsGitRepo(git, activeFolder))
        THEN Returns("ActiveEditor", activeFolder, <<>>, <<"active">>)
        ELSE [rest EXCEPT !.steps = <<"active">> \o @]

\* selectWorkspaceFolderSmart returning the active editor's folder whatever it is
SelectWorkspaceFolderSmartAnyActiveFolder(fs, git, ed, last, gitRepoOnly) ==
    LET activeFolder == GetActiveEditorWorkspaceFolder(fs, ed)
        rest == SelectWorkspaceFolder(fs, git, last, gitRepoOnly, FALSE)
    IN  IF Cardinality(fs) = 0
        THEN Returns("NoWorkspace", Undefined, NoWorkspaceMessage, <<>>)
        ELSE IF Cardinality(fs) = 1
        THEN Returns("Single", First(fs), <<>>, <<>>)
        ELSE IF activeFolder # Undefined
        THEN Returns("ActiveEditor", activeFolder, <<>>, <<"active">>)
        ELSE [rest EXCEPT !.steps = <<"active">> \o @]

\* WorkspaceManager.selectWorkspaceFolderSmart
SelectWorkspaceFolderSmart(fs, git, ed, last, gitRepoOnly) ==
    LET activeFolder == GetActiveEditorWorkspaceFolder(fs, ed)
        rest == SelectWorkspaceFolder(fs, git, last, gitRepoOnly, FALSE)
    IN  IF Cardinality(fs) = 0
        THEN Returns("NoWorkspace", Undefined, NoWorkspaceMessage, <<>>)
        ELSE IF Cardinality(fs) = 1
        THEN Returns("Single", First(fs), <<>>, <<>>)
        ELSE IF activeFolder # Undefined /\ (~gitRepoOnly \/ IsGitRepo(git, activeFolder))
        THEN Returns("ActiveEditor", activeFolder, <<>>, <<"active">>)
        ELSE [rest EXCEPT !.steps = <<"active">> \o @]

\* the two entry points of the resolver
Entries == {"selectWorkspaceFolderSmart", "selectWorkspaceFolder"}

NoCall == [entry |-> "none", gitRepoOnly |-> FALSE, rememberChoice |-> FALSE, last |-> Undefined]

\* how operations call the resolver: through GitBase / GitHubApi
\* selectWorkspace, or selectWorkspaceFolderSmart themselves (initRepo)
Callers == {"selectWorkspace", "initRepo"}

\* an operation going on without looking at what the resolver returned
ProceedsUnchecked(folder) == TRUE

\* the caller's test of the resolver's result: `if (folder)` / `if (!folder) return`
Proceeds(folder) == folder # Undefined

\* the secret storage holds nothing under the key: get resolves with undefined
NoData == [present |-> FALSE]

\* the two places a SecretStorage call can be running in
Slots == {"first", "second"}

NoSecretCall == [kind |-> "none"]

\* the command handlers that can be running at once
Handlers == 1..MaxInFlight

NoHandler == [at |-> "none"]

\* no createTag call is running in the slot
NoTagOp == [at |-> "none"]

\* editSecretDialog is not open
NoDialog == [at |-> "none"]

\* githubRequest was not called
NoRequest ==
    [issued |-> FALSE, destroyed |-> FALSE, ended |-> FALSE, errored |-> FALSE,
     response |-> [kind |-> "none"], data |-> ""]

\* a promise that is not settled
Pending == [state |-> "pending"]

\* no remote URL was read yet
NoRemote == [shape |-> "none"]

\* the URL was not parsed yet
Unparsed == [pending |-> TRUE]

Init ==
    /\ settings = [retryCount |-> DefaultRetryCount, retryDelay |-> DefaultRetryDelay]
    /\ loop = "GitBase"
    /\ pc = "Idle"
    /\ config = GetNetworkConfig(settings)
    /\ i = 0
    /\ lastError = Null
    /\ cancelled = FALSE
    /\ attempts = 0
    /\ sleeps = 0
    /\ history = <<>>
    /\ progressLog = <<>>
    /\ shown = <<>>
    /\ returned = Nothing
    /\ thrown = Nothing
    /\ cancelAt = 0
    /\ cancelInFlight = FALSE
    /\ folders = {}
    /\ gitRepos = {}
    /\ activeEditor = Undefined
    /\ lastSelectedFolder = Undefined
    /\ currentFolder = Undefined
    /\ rpc = "Idle"
    /\ call = NoCall
    /\ steps = <<>>
    /\ items = {}
    /\ prompts = 0
    /\ resolverError = <<>>
    /\ via = "None"
    /\ target = Undefined
    /\ commands = 0
    /\ stale = FALSE
    /\ timeoutSettings = [git |-> DefaultCommandTimeout, network |-> DefaultTimeout]
    /\ timeoutLog = <<>>
    /\ op = "none"
    /\ frame = "none"
    /\ nested = FALSE
    /\ opc = "Idle"
    /\ issued = <<>>
    /\ messages = <<>>
    /\ resolved = {}
    /\ dismissedAt = 0 - 1
    /\ dismissedShown = 0
    /\ failedAt = 0 - 1
    /\ lastFailure = <<>>
    /\ gitignoreFolder = Undefined
    /\ written = {}
    /\ secretsReady = FALSE
    /\ vault = NoData
    /\ now = 1
    /\ calls = [slot \in Slots |-> NoSecretCall]
    /\ writes = 0
    /\ storageErrors = <<>>
    /\ remoteUrl = <<>>
    /\ remoteParts = NoRemote
    /\ parsed = Unparsed
    /\ disabled = {}
    /\ inFlight = [id \in Handlers |-> NoHandler]
    /\ waits = <<>>
    /\ request = NoRequest
    /\ promise = Pending
    /\ settleCalls = <<>>
    /\ dialog = NoDialog
    /\ tagFolder = Undefined
    /\ tagOps = [slot \in Slots |-> NoTagOp]

\* the user edits the retry count in the settings
SetConfiguration(n) ==
    /\ n # settings.retryCount
    /\ settings' = [settings EXCEPT !.retryCount = n]
    /\ UNCHANGED <<loop, pc, config, i, lastError, cancelled, attempts, sleeps, history,
                   progressLog, shown, returned, thrown, cancelAt, cancelInFlight>>

\* A caller invokes one of the retry loops: the configuration is read, the
\* loop is entered and runs up to its first await.
Invoke(l) ==
    /\ pc = "Idle"
    /\ loop' = l
    /\ config' = GetNetworkConfig(settings)
    /\ EnterIteration(l, config', 0, Null, FALSE)
    /\ UNCHANGED <<settings, lastError, cancelled, sleeps, history, cancelAt, cancelInFlight>>

\* The awaited unit of work settles and the loop runs on to its next await or
\* to its end.
Resolve(ev) ==
    /\ pc = "Attempting"
    /\ LET out == UnitOfWork(loop, ev)
           d   == AfterAttempt(loop, config, i, out)
       IN  /\ history' = Append(history, [ev |-> ev, out |-> out])
           /\ lastError' = IF out.ok THEN lastError ELSE out.error
           /\ CASE d = "return" ->
                      /\ Return(out.value)
                      /\ UNCHANGED <<i, attempts, sleeps, progressLog>>
                [] d = "sleep" ->
                      /\ pc' = "Sleeping"
                      /\ sleeps' = sleeps + 1
                      /\ UNCHANGED <<i, attempts, progressLog, shown, returned, thrown>>
                [] d = "continue" ->
                      /\ EnterIteration(loop, config, i + 1, out.error, cancelled)
                      /\ UNCHANGED sleeps
                [] d = "throw" ->
                      /\ Throw(loop, out.error, "error")
                      /\ UNCHANGED <<i, attempts, sleeps, progressLog>>
    /\ UNCHANGED <<settings, loop, config, cancelled, cancelAt, cancelInFlight>>

\* the inter-attempt delay elapses; the loop continues with i + 1
SleepEnds ==
    /\ pc = "Sleeping"
    /\ EnterIteration(loop, config, i + 1, lastError, cancelled)
    /\ UNCHANGED <<settings, loop, config, lastError, cancelled, sleeps, history,
                   cancelAt, cancelInFlight>>

\* Cancel that also aborts the outstanding request and ends the invocation
CancelAbortsRequest ==
    /\ IsApi(loop)
    /\ pc \in {"Attempting", "Sleeping"}
    /\ ~cancelled
    /\ cancelled' = TRUE
    /\ cancelAt' = attempts
    /\ cancelInFlight' = (pc = "Attempting")
    /\ pc' = "Cancelled"
    /\ returned' = Null
    /\ UNCHANGED <<settings, loop, config, i, lastError, attempts, sleeps, history,
                   progressLog, shown, thrown>>

\* the user presses Cancel on the progress notification
Cancel ==
    /\ IsApi(loop)
    /\ pc \in {"Attempting", "Sleeping"}
    /\ ~cancelled
    /\ cancelled' = TRUE
    /\ cancelAt' = attempts
    /\ cancelInFlight' = (pc = "Attempting")
    /\ UNCHANGED <<settings, loop, pc, config, i, lastError, attempts, sleeps, history,
                   progressLog, shown, returned, thrown>>

\* the caller has taken the outcome; the invocation's locals are gone
Complete ==
    /\ pc \in Terminal
    /\ pc' = "Idle"
    /\ i' = 0
    /\ lastError' = Null
    /\ cancelled' = FALSE
    /\ attempts' = 0
    /\ sleeps' = 0
    /\ history' = <<>>
    /\ progressLog' = <<>>
    /\ shown' = <<>>
    /\ returned' = Nothing
    /\ thrown' = Nothing
    /\ cancelAt' = 0
    /\ cancelInFlight' = FALSE
    /\ UNCHANGED <<settings, loop, config>>

\* the user adds a folder to the workspace
AddWorkspaceFolder(f) ==
    /\ rpc = "Idle"
    /\ f \notin folders
    /\ folders' = folders \cup {f}
    /\ UNCHANGED <<gitRepos, activeEditor, lastSelectedFolder, currentFolder, rpc, call,
                   steps, items, prompts, resolverError, via, target, commands, stale>>

\* the user removes a folder from the workspace
RemoveWorkspaceFolder(f) ==
    /\ rpc = "Idle"
    /\ f \in folders
    /\ folders' = folders \ {f}
    /\ UNCHANGED <<gitRepos, activeEditor, lastSelectedFolder, currentFolder, rpc, call,
                   steps, items, prompts, resolverError, via, target, commands, stale>>

\* a repository is created in, or removed from, a path
SetGitRepo(f) ==
    /\ rpc = "Idle"
    /\ gitRepos' = IF f \in gitRepos THEN gitRepos \ {f} ELSE gitRepos \cup {f}
    /\ UNCHANGED <<folders, activeEditor, lastSelectedFolder, currentFolder, rpc, call,
                   steps, items, prompts, resolverError, via, target, commands, stale>>

\* the user moves to an editor on a file under path e, or closes the editors
ChangeActiveEditor(e) ==
    /\ rpc = "Idle"
    /\ e # activeEditor
    /\ activeEditor' = e
    /\ UNCHANGED <<folders, gitRepos, lastSelectedFolder, currentFolder, rpc, call,
                   steps, items, prompts, resolverError, via, target, commands, stale>>

\* an operation asks the resolver for its folder; the resolver runs up to its
\* first return statement or to its quick pick
SelectWorkspace(entry, gitRepoOnly, rememberChoice) ==
    /\ rpc = "Idle"
    /\ entry = "selectWorkspaceFolderSmart" => ~rememberChoice
    /\ LET r == IF entry = "selectWorkspaceFolderSmart"
                THEN SelectWorkspaceFolderSmart(folders, gitRepos, activeEditor,
                                                lastSelectedFolder, gitRepoOnly)
                ELSE SelectWorkspaceFolder(folders, gitRepos, lastSelectedFolder,
                                           gitRepoOnly, rememberChoice)
       IN  /\ call' = [entry |-> entry, gitRepoOnly |-> gitRepoOnly,
                       rememberChoice |-> rememberChoice, last |-> lastSelectedFolder]
           /\ steps' = r.steps
           /\ items' = r.items
           /\ prompts' = IF r.kind = "pick" THEN 1 ELSE 0
           /\ resolverError' = r.error
           /\ via' = r.via
           /\ target' = r.target
           /\ rpc' = IF r.kind = "pick" THEN "Picking" ELSE "Resolved"
    /\ stale' = (stale \/ (lastSelectedFolder # Undefined /\ lastSelectedFolder \notin folders))
    /\ commands' = 0
    /\ UNCHANGED <<folders, gitRepos, activeEditor, lastSelectedFolder, currentFolder>>

\* the user picks an item of the quick pick, or dismisses it (choice = Undefined)
QuickPick(choice) ==
    /\ rpc = "Picking"
    /\ choice = Undefined \/ choice \in {it.folder : it \in items}
    /\ target' = choice
    /\ via' = IF choice # Undefined THEN "Picked" ELSE "Dismissed"
    /\ lastSelectedFolder' = IF choice # Undefined /\ call.rememberChoice
                             THEN choice ELSE lastSelectedFolder
    /\ stale' = IF choice # Undefined /\ call.rememberChoice THEN FALSE ELSE stale
    /\ rpc' = "Resolved"
    /\ UNCHANGED <<folders, gitRepos, activeEditor, currentFolder, call, steps, items,
                   prompts, resolverError, commands>>

\* the operation that asked.  Through selectWorkspace it stores whatever the
\* resolver returned; calling the resolver itself it stores a folder only.
\* It returns when it got no folder and otherwise issues its unit of work.
OperationContinues(caller) ==
    /\ rpc = "Resolved"
    /\ currentFolder' = IF caller = "selectWorkspace" \/ Proceeds(target)
                        THEN target ELSE currentFolder
    /\ commands' = IF Proceeds(target) THEN commands + 1 ELSE commands
    /\ rpc' = "Done"
    /\ UNCHANGED <<folders, gitRepos, activeEditor, lastSelectedFolder, call, steps, items,
                   prompts, resolverError, via, target, stale>>

\* the operation is over
OperationEnds ==
    /\ rpc = "Done"
    /\ rpc' = "Idle"
    /\ call' = NoCall
    /\ steps' = <<>>
    /\ items' = {}
    /\ prompts' = 0
    /\ resolverError' = <<>>
    /\ via' = "None"
    /\ target' = Undefined
    /\ commands' = 0
    /\ UNCHANGED <<folders, gitRepos, activeEditor, lastSelectedFolder, currentFolder, stale>>

Next ==
    \/ (\E n \in RetryCounts : SetConfiguration(n)) /\ UNCHANGED <<wvars, xvars>>
    \/ (\E l \in Loops : Invoke(l)) /\ UNCHANGED <<wvars, xvars>>
    \/ (\E ev \in Events(loop) : Resolve(ev)) /\ UNCHANGED <<wvars, xvars>>
    \/ SleepEnds /\ UNCHANGED <<wvars, xvars>>
    \/ Cancel /\ UNCHANGED <<wvars, xvars>>
    \/ Complete /\ UNCHANGED <<wvars, xvars>>

Spec == Init /\ [][Next]_<<vars, wvars, xvars>>

ResolverNext ==
    \/ (\E f \in Paths : AddWorkspaceFolder(f)) /\ UNCHANGED <<vars, xvars>>
    \/ (\E f \in Paths : RemoveWorkspaceFolder(f)) /\ UNCHANGED <<vars, xvars>>
    \/ (\E f \in Paths : SetGitRepo(f)) /\ UNCHANGED <<vars, xvars>>
    \/ (\E e \in Paths \cup {Undefined} : ChangeActiveEditor(e)) /\ UNCHANGED <<vars, xvars>>
    \/ (\E entry \in Entries, g \in BOOLEAN, r \in BOOLEAN : SelectWorkspace(entry, g, r))
          /\ UNCHANGED <<vars, xvars>>
    \/ (\E choice \in Paths \cup {Undefined} : QuickPick(choice)) /\ UNCHANGED <<vars, xvars>>
    \/ (\E caller \in Callers : OperationContinues(caller)) /\ UNCHANGED <<vars, xvars>>
    \/ OperationEnds /\ UNCHANGED <<vars, xvars>>

SpecResolver == Init /\ [][ResolverNext]_<<vars, wvars, xvars>>

----------------------------------------------------------------------------
(* The retry loops with the per-attempt timeout.  runGitCommandWithRetry   *)
(* calls runGitCommand(command), githubRequestWithProgress calls           *)
(* githubRequest(method, path, token, body): neither passes a timeout, so  *)
(* each attempt reads the setting when it starts.                          *)

Sections == {"git", "network"}

Timeouts == {DefaultCommandTimeout, DefaultTimeout}

\* getGitTimeout / getConfig().timeout
GetGitTimeout(ts) == ts.git

\* `timeout ?? this.getGitTimeout()` / `timeout ?? this.getNetworkConfig().timeout`,
\* with no timeout passed
ActualTimeout(l, ts) == IF IsApi(l) THEN ts.network ELSE GetGitTimeout(ts)

\* the user edits a timeout in the settings
SetTimeout(section, t) ==
    /\ t # timeoutSettings[section]
    /\ timeoutSettings' = [timeoutSettings EXCEPT ![section] = t]
    /\ UNCHANGED timeoutLog

\* a step of the loop: an attempt it starts runs under the timeout set now
LogTimeout ==
    /\ timeoutLog' = IF pc' = "Idle" THEN <<>>
                     ELSE IF attempts' > attempts
                     THEN Append(timeoutLog, ActualTimeout(loop', timeoutSettings))
                     ELSE timeoutLog
    /\ UNCHANGED timeoutSettings

PolicyNext ==
    \/ (\E n \in RetryCounts : SetConfiguration(n)) /\ LogTimeout /\ UNCHANGED <<wvars, ovars, svars, uvars, cvars, waits, yvars>>
    \/ (\E section \in Sections, t \in Timeouts : SetTimeout(section, t))
          /\ UNCHANGED <<vars, wvars, ovars, svars, uvars, cvars, waits, yvars>>
    \/ (\E l \in Loops : Invoke(l)) /\ LogTimeout /\ UNCHANGED <<wvars, ovars, svars, uvars, cvars, waits, yvars>>
    \/ (\E ev \in Events(loop) : Resolve(ev)) /\ LogTimeout /\ UNCHANGED <<wvars, ovars, svars, uvars, cvars, waits, yvars>>
    \/ SleepEnds /\ LogTimeout /\ UNCHANGED <<wvars, ovars, svars, uvars, cvars, waits, yvars>>
    \/ Cancel /\ LogTimeout /\ UNCHANGED <<wvars, ovars, svars, uvars, cvars, waits, yvars>>
    \/ Complete /\ LogTimeout /\ UNCHANGED <<wvars, ovars, svars, uvars, cvars, waits, yvars>>

SpecPolicy == Init /\ [][PolicyNext]_<<vars, wvars, xvars>>

----------------------------------------------------------------------------
(* Vocabulary of the claims *)

\* Failure classification by cause (spec section 3): deadline exceeded, TLS
\* handshake failure, name-resolution / connectivity failure, host unreachable
\* are Transient; every other cause is Fatal.
TransientCauses == {"deadline", "tls", "dns", "connectivity", "unreachable"}

IsFailure(h) == ~h.out.ok

IsTransientFailure(h) == IsFailure(h) /\ h.ev.cause \in TransientCauses

IsFatalFailure(h) == IsFailure(h) /\ h.ev.cause \notin TransientCauses

\* attempt k failed and the loop went on to attempt k + 1 (or is sleeping before it)
Retried(k) == attempts > k \/ (k = Len(history) /\ pc = "Sleeping")

\* the four substrings of spec section 4.3, sought in the lower-cased text
TransientKeywords == {KwTimeout, KwSsl, KwNetwork, KwUnableToAccess}

HasTransientKeyword(m) == \E kw \in TransientKeywords : Includes(ToLowerCase(m), kw)

----------------------------------------------------------------------------
(* Claims *)

\* C1 (as claimed): an invocation of a retry loop makes at most retryCount
\* attempts, and after an attempt that ended in a Fatal failure it makes no
\* further attempt.
C1_AtMostRetryCountNoRetryOfFatal ==
    /\ attempts > 0 => attempts <= config.retryCount
    /\ \A k \in 1..Len(history) :
          IsFatalFailure(history[k]) => attempts = k /\ pc # "Sleeping"

\* C2 (as claimed): when every attempt of a git retry loop with retryCount
\* n >= 1 threw a Transient failure, the loop made exactly n attempts and threw
\* the error of the n-th attempt.
C2_AllTransientExhaustsBudget ==
    ( /\ ~IsApi(loop)
      /\ pc = "Failed"
      /\ config.retryCount >= 1
      /\ \A k \in 1..Len(history) : IsTransientFailure(history[k]) )
    => /\ attempts = config.retryCount
       /\ Len(history) = config.retryCount
       /\ thrown = history[config.retryCount].out.error

\* C3: an attempt that succeeds is the last one of its invocation: when attempt
\* k succeeded, every earlier attempt failed, exactly k <= retryCount attempts
\* were made, the invocation has returned that attempt's value, and no attempt
\* is started or pending afterwards.
C3_SuccessEndsTheInvocation ==
    \A k \in 1..Len(history) :
        history[k].out.ok =>
            /\ k = Len(history)
            /\ attempts = k
            /\ k <= config.retryCount
            /\ pc = "Succeeded"
            /\ returned = history[k].out.value
            /\ \A j \in 1..(k - 1) : IsFailure(history[j])

\* C3 witness: attempt 1 failed, attempt 2 succeeded with one attempt left
C3_Witness ==
    /\ pc = "Succeeded"
    /\ config.retryCount = 3
    /\ attempts = 2
    /\ IsFailure(history[1])
    /\ history[2].out.ok

\* C4 (as claimed): a git command killed for exceeding its timeout is retried
\* while attempts remain.
C4_KilledCommandIsRetried ==
    \A k \in 1..Len(history) :
        (~IsApi(loop) /\ history[k].ev.killed /\ k < config.retryCount) => Retried(k)

\* C5 (as claimed): once cancellation was requested before attempt k <=
\* retryCount started, attempt k is never issued and the invocation ends
\* Cancelled.
C5_CancelBeforeAttemptEndsCancelled ==
    (cancelled /\ cancelAt < config.retryCount) =>
        /\ attempts = cancelAt
        /\ pc \in Terminal => pc = "Cancelled"

\* C5 (amended): once cancellation was requested before attempt k <= retryCount
\* started, attempt k is never issued; the invocation ends Cancelled (null
\* returned, nothing shown) unless the request that was outstanding when
\* cancellation was requested succeeds, and then its response is returned.
C5_CancelPreventsNextAttempt ==
    (cancelled /\ cancelAt < config.retryCount) =>
        /\ attempts = cancelAt
        /\ pc \in Terminal =>
              IF history[Len(history)].out.ok
              THEN /\ cancelInFlight
                   /\ Len(history) = cancelAt
                   /\ pc = "Succeeded"
              ELSE /\ pc = "Cancelled"
                   /\ returned = Null
                   /\ shown = <<>>

\* C5 witness: cancellation during the delay before attempt 2 of 3
C5_Witness ==
    /\ pc = "Cancelled"
    /\ config.retryCount = 3
    /\ cancelAt = 1
    /\ ~cancelInFlight
    /\ attempts = 1

\* C6: a cancellation requested while the request of attempt k is outstanding
\* leaves it outstanding, and it can still end in each of its own ways; when it
\* succeeds the response is returned to the caller and nothing is shown; when it
\* fails the failure is the loop's last error and attempt k + 1 is not started.
C6_CancelLeavesAttemptInFlight ==
    cancelInFlight =>
        IF Len(history) < cancelAt
        THEN /\ pc = "Attempting"
             /\ attempts = cancelAt
             /\ \A ev \in RequestEvents : ENABLED Resolve(ev)
        ELSE /\ attempts = cancelAt
             /\ IF history[cancelAt].out.ok
                THEN /\ pc = "Succeeded"
                     /\ returned = history[cancelAt].out.value
                     /\ shown = <<>>
                ELSE /\ lastError = history[cancelAt].out.error
                     /\ pc \in {"Sleeping", "Cancelled", "Failed"}

\* C6 witness: cancelled while attempt 2 was outstanding, and attempt 2 succeeded
C6_Witness ==
    /\ cancelInFlight
    /\ cancelAt = 2
    /\ pc = "Succeeded"
    /\ returned = history[2].out.value

\* C7 (as claimed): an invocation of the progress-wrapped retry goes Idle ->
\* Attempting -> one of Succeeded, Failed, Cancelled; it stays in its terminal
\* outcome until the caller has taken it, and it starts a further attempt only
\* after a Transient failure with attempts remaining.
C7_StateMachine ==
    [][ IsApi(loop') =>
          /\ pc = "Idle" => pc' \in {"Idle", "Attempting"}
          /\ pc' \in Terminal => pc' \in {"Succeeded", "Failed", "Cancelled"}
          /\ pc \in Terminal => pc' \in {pc, "Idle"}
          /\ (attempts >= 1 /\ attempts' = attempts + 1) =>
                /\ IsTransientFailure(history[Len(history)])
                /\ attempts < config.retryCount ]_vars

\* C8 (as claimed): an invocation of githubRequestWithProgress that ends
\* Cancelled shows no error message and returns null; every other failing
\* invocation shows its error message.
C8_OnlyCancellationIsSilent ==
    IsApi(loop) =>
        /\ pc = "Cancelled" => shown = <<>> /\ returned = Null
        /\ pc \in {"Failed", "Rejected"} =>
              /\ Len(shown) = 1
              /\ shown[1] = lastError.message

\* C9 (as claimed): the progress message reported before attempt k >= 2 shows
\* k out of retryCount.
C9_ProgressShowsAttemptNumber ==
    \A k \in 2..Len(progressLog) :
        Includes(progressLog[k].message,
                 NumberToString(k) \o <<"/">> \o NumberToString(config.retryCount))

\* C10: a git retry loop goes on after a failed attempt k exactly when k <
\* retryCount and the lower-cased message contains 'timeout', 'ssl', 'network'
\* or 'unable to access'; otherwise the invocation ends on attempt k, throwing
\* that attempt's error.
C10_RetryIffKeywordAndBudget ==
    ~IsApi(loop) =>
        \A k \in 1..Len(history) :
            IsFailure(history[k]) =>
                IF k < config.retryCount /\ HasTransientKeyword(history[k].out.error.message)
                THEN Retried(k)
                ELSE /\ pc = "Failed"
                     /\ attempts = k
                     /\ thrown = history[k].out.error

\* C10 witness: "SSL handshake failed" was retried and "permission denied"
\* ended the invocation on attempt 2 of 3
C10_Witness ==
    /\ ~IsApi(loop)
    /\ pc = "Failed"
    /\ config.retryCount = 3
    /\ attempts = 2
    /\ history[1].out.error.message = StderrSslHandshake
    /\ history[2].out.error.message = StderrPermissionDenied

\* a response body on which JSON.parse throws
IsMalformedBody(text) == text # "" /\ JsonParse(text) = JsonSyntaxError

\* C11 (as claimed): a git failure whose cause is authorization rejection or
\* bad input is never retried, whatever its text.
C11_AuthorizationNeverRetried ==
    ~IsApi(loop) =>
        \A k \in 1..Len(history) :
            history[k].ev.cause \in {"authorization", "badInput"} => ~Retried(k)

\* C12 (as claimed): an invocation that made m >= 1 attempts has slept m - 1
\* times when it ends, and a delay is only ever started after a Transient
\* failure with attempts remaining (never after a success, a Fatal failure or
\* the final allowed attempt).
C12_SleepsOnlyBetweenAttempts ==
    /\ pc = "Sleeping" =>
          /\ IsTransientFailure(history[Len(history)])
          /\ attempts < config.retryCount
    /\ (pc \in Terminal /\ attempts >= 1) => sleeps = attempts - 1

\* C13: every response the server returns, whatever its status, makes
\* githubRequest resolve with (statusCode, parsed body), and
\* githubRequestWithProgress returns that response after that attempt without
\* another attempt.
C13_AnyStatusIsReturned ==
    IsApi(loop) =>
        \A k \in 1..Len(history) :
            history[k].ev.kind = "end" =>
                /\ history[k].out.ok
                /\ history[k].out.value.status = history[k].ev.status
                /\ history[k].out.value.data =
                      IF history[k].ev.body = "" \/ IsMalformedBody(history[k].ev.body)
                      THEN Null ELSE JsonParse(history[k].ev.body)
                /\ k = Len(history)
                /\ attempts = k
                /\ pc = "Succeeded"
                /\ returned = history[k].out.value

\* C13 witness: a 500 response returned after the only attempt of three allowed
C13_Witness ==
    /\ IsApi(loop)
    /\ pc = "Succeeded"
    /\ config.retryCount = 3
    /\ attempts = 1
    /\ history[1].ev.status = 500
    /\ returned.status = 500

\* C14 (as claimed): a response whose body cannot be parsed makes githubRequest
\* throw a Fatal failure instead of returning normally.
C14_MalformedBodyIsThrown ==
    IsApi(loop) =>
        \A k \in 1..Len(history) :
            (history[k].ev.kind = "end" /\ IsMalformedBody(history[k].ev.body)) =>
                ~history[k].out.ok

\* C14 (amended): githubRequest rejects exactly when no complete response
\* arrives (the timeout fires, the request emits 'error', or https.request
\* itself throws); a response whose body cannot be parsed is a normal return
\* value (status, null).
C14_MalformedBodyIsReturnedWithNull ==
    IsApi(loop) =>
        \A k \in 1..Len(history) :
            /\ ~history[k].out.ok <=> history[k].ev.kind \in {"timeout", "error", "throw"}
            /\ (history[k].ev.kind = "end" /\ IsMalformedBody(history[k].ev.body)) =>
                  /\ history[k].out.ok
                  /\ history[k].out.value = [status |-> history[k].ev.status, data |-> Null]

\* C14 witness: a 502 response with an HTML body was returned with data null
C14_Witness ==
    /\ IsApi(loop)
    /\ pc = "Succeeded"
    /\ IsMalformedBody(history[Len(history)].ev.body)
    /\ returned = [status |-> 502, data |-> Null]

----------------------------------------------------------------------------
(* Claims about the workspace resolver.  While an operation is between its *)
(* call of the resolver and its end (rpc # "Idle") the workspace is the    *)
(* one the resolution started with.                                        *)

ActiveFolder == GetActiveEditorWorkspaceFolder(folders, activeEditor)

HasReturned == rpc \in {"Resolved", "Done"}

\* C15: with exactly one workspace folder, both entry points return that
\* folder without a quick pick and without an error message, also when
\* gitRepoOnly is set and the folder is not a git repository.
C15_SingleFolderIsReturnedAsIs ==
    (rpc # "Idle" /\ Cardinality(folders) = 1) =>
        /\ HasReturned
        /\ via = "Single"
        /\ target \in folders
        /\ prompts = 0
        /\ items = {}
        /\ resolverError = <<>>

\* C15 witness: the lone folder is no repository and gitRepoOnly was set
C15_Witness ==
    /\ rpc = "Resolved"
    /\ Cardinality(folders) = 1
    /\ call.gitRepoOnly
    /\ call.entry = "selectWorkspaceFolderSmart"
    /\ target \in folders
    /\ ~IsGitRepo(gitRepos, target)

\* two folders, nothing remembered, no active editor folder, gitRepoOnly set,
\* exactly one of the two a git repository
OneRepositoryOfTwo ==
    /\ rpc # "Idle"
    /\ Cardinality(folders) = 2
    /\ call.last = Undefined
    /\ ActiveFolder = Undefined
    /\ call.gitRepoOnly
    /\ Cardinality(folders \cap gitRepos) = 1

C17_AbsentRememberedIsInvalidated ==
    via = "Remembered" => ~stale

\* C18 (as claimed): with more than one folder, a resolution that opted into
\* memoization and whose remembered folder is open returns it without having
\* consulted the active editor, and no resolution filters or prompts before it
\* has consulted the active editor.
C18_RememberedThenActiveThenFilter ==
    (rpc # "Idle" /\ Cardinality(folders) > 1) =>
        /\ (call.rememberChoice /\ call.last \in folders) =>
              /\ via = "Remembered"
              /\ \A k \in 1..Len(steps) : steps[k] # "active"
        /\ \A k \in 1..Len(steps) :
              steps[k] \in {"filter", "prompt"} => \E j \in 1..(k - 1) : steps[j] = "active"
        /\ \A j, k \in 1..Len(steps) :
              (steps[j] = "remembered" /\ steps[k] = "active") => j < k

\* C19: with more than one folder, selectWorkspaceFolderSmart returns the
\* active editor's folder without a quick pick exactly when there is one and
\* (gitRepoOnly is unset or it is a git repository); an active folder that is
\* no repository under gitRepoOnly is not returned, and the resolution goes on
\* to the filtered selection.
C19_ActiveFolderIffItQualifies ==
    (rpc # "Idle" /\ call.entry = "selectWorkspaceFolderSmart" /\ Cardinality(folders) > 1) =>
        IF ActiveFolder # Undefined /\ (~call.gitRepoOnly \/ IsGitRepo(gitRepos, ActiveFolder))
        THEN /\ HasReturned
             /\ via = "ActiveEditor"
             /\ target = ActiveFolder
             /\ prompts = 0
        ELSE /\ via # "ActiveEditor"
             /\ ActiveFolder # Undefined =>
                   /\ target # ActiveFolder
                   /\ steps[2] = "filter"
                   /\ \A it \in items : IsGitRepo(gitRepos, it.folder)
                   /\ via \in {"NoGitRepository", "OnlyRepository", "Pending",
                               "Picked", "Dismissed"}

\* C19 witness: the active folder is no repository, and the resolution went
\* on to return the other folder, which is one
C19_Witness ==
    /\ rpc = "Resolved"
    /\ call.entry = "selectWorkspaceFolderSmart"
    /\ call.gitRepoOnly
    /\ ActiveFolder # Undefined
    /\ ~IsGitRepo(gitRepos, ActiveFolder)
    /\ via = "OnlyRepository"
    /\ target # ActiveFolder
    /\ IsGitRepo(gitRepos, target)

\* C20: a resolution that ends in NoWorkspace or NoGitRepository returns no
\* folder, and the operation that asked issues no unit of work afterwards.
C20_NoTargetNoUnitOfWork ==
    via \in {"NoWorkspace", "NoGitRepository"} =>
        /\ HasReturned
        /\ target = Undefined
        /\ commands = 0
        /\ resolverError = IF via = "NoWorkspace" THEN NoWorkspaceMessage
                           ELSE NoGitRepositoryMessage
        /\ via = "NoWorkspace" <=> folders = {}
        /\ via = "NoGitRepository" =>
              (call.gitRepoOnly /\ Cardinality(folders) > 1 /\ folders \cap gitRepos = {})

\* C20 witness: the operation is over after NoGitRepository, nothing issued
C20_Witness ==
    /\ rpc = "Done"
    /\ via = "NoGitRepository"
    /\ commands = 0

----------------------------------------------------------------------------
(* Claims about the retry policy *)

\* C23 (as claimed): all attempts of one invocation run under one policy: the
\* retry count and delay are the loop's local config, and every attempt ran
\* under the same timeout, whatever was edited in the settings meanwhile.
C23_PolicyIsFixedForTheInvocation ==
    /\ pc # "Idle" => Len(timeoutLog) = attempts
    /\ \A j, k \in 1..Len(timeoutLog) : timeoutLog[j] = timeoutLog[k]

----------------------------------------------------------------------------
(* Operations: GitOperations.initRepo and addRemoteAndPush (which calls    *)
(* initRepo), and RepoSync.addRemote.  One operation runs at a time; a     *)
(* step runs from one await of a prompt or of a command to the next.  A    *)
(* runGitCommandWithRetry call is one step here: its loop is the subject   *)
(* of Spec.                                                                *)

OperationFailedPrefix ==
    <<"U64CD", "U4F5C", "U5931", "U8D25", ":", " ">>
InitFailedPrefix ==
    <<"U521D", "U59CB", "U5316", "U5931", "U8D25", ":", " ">>
AddFailedPrefix ==
    <<"U6DFB", "U52A0", "U5931", "U8D25", ":", " ">>
PushSucceededMessage ==
    <<"U63A8", "U9001", "U6210", "U529F", "UFF01">>
RemoteAddedMessage ==
    <<"U8FDC", "U7A0B", "U4ED3", "U5E93", "U5DF2", "U6DFB", "U52A0">>
RemoteAddedPrefix ==
    <<"U2705", " ", "U5DF2", "U6DFB", "U52A0", "U8FDC", "U7A0B", "U4ED3", "U5E93", ":", " ">>
InitDoneMessage ==
    <<"G", "i", "t", " ", "U4ED3", "U5E93", "U521D", "U59CB", "U5316", "U5B8C", "U6210">>
AlreadyRepoSuffix ==
    <<" ", "U5DF2", "U7ECF", "U662F", " ", "G", "i", "t", " ", "U4ED3", "U5E93">>
SelectWorkspaceFirstMessage ==
    <<"U8BF7", "U5148", "U9009", "U62E9", "U5DE5", "U4F5C", "U533A">>
StderrNotARepository ==
    <<"f", "a", "t", "a", "l", ":", " ", "n", "o", "t", " ", "a", " ", "g", "i", "t", " ", "r", "e", "p", "o", "s", "i", "t", "o", "r", "y">>
RemoteName ==
    <<"g", "i", "t", "e", "e">>

\* folder.name
FolderName(f) == NatToString(f)

Operations == {"initRepo", "addRemoteAndPush", "RepoSync.addRemote"}

\* a git command ends: exit 0, or non-zero with its stderr
FailureMessages == {StderrPermissionDenied, StderrNetworkTimeout}

CommandResults ==
    {[ok |-> TRUE, message |-> <<>>]} \cup {[ok |-> FALSE, message |-> m] : m \in FailureMessages}

AllResults == CommandResults \cup {[ok |-> FALSE, message |-> StderrNotARepository]}

\* outside a repository every command but `git init` fails
Outcomes(cwd) ==
    IF IsGitRepo(gitRepos, cwd) THEN CommandResults
    ELSE {[ok |-> FALSE, message |-> StderrNotARepository]}

Command(name, cwd, res) == [cmd |-> name, cwd |-> cwd, ok |-> res.ok]

Info(text) == [kind |-> "info", text |-> text]

ErrorMessage(text) == [kind |-> "error", text |-> text]

\* what a step adds to the commands issued and the messages shown; `dismiss`:
\* it ended a prompt the user dismissed; `failure`: the message of a Failure
\* no try/catch around the command recovered from, or <<>>
Effects(cmds, msgs, dismiss, failure) ==
    /\ issued' = issued \o cmds
    /\ messages' = messages \o msgs
    /\ dismissedAt' = IF dismiss /\ dismissedAt < 0 THEN Len(issued \o cmds) ELSE dismissedAt
    /\ dismissedShown' = IF dismiss /\ dismissedAt < 0 THEN Len(messages \o msgs)
                         ELSE dismissedShown
    /\ failedAt' = IF failure # <<>> /\ failedAt < 0 THEN Len(issued \o cmds) ELSE failedAt
    /\ lastFailure' = IF failure # <<>> THEN failure ELSE lastFailure

\* the function on top returns: initRepo called by addRemoteAndPush returns
\* into it, before `git remote`; otherwise the operation is over
InitRepoReturns ==
    /\ opc' = IF nested THEN "GitRemote" ELSE "Done"
    /\ frame' = IF nested THEN "addRemoteAndPush" ELSE frame
    /\ nested' = FALSE

OperationReturns ==
    /\ opc' = "Done"
    /\ UNCHANGED <<frame, nested>>

GoesTo(label) ==
    /\ opc' = label
    /\ UNCHANGED <<frame, nested>>

\* a command is invoked
StartOperation(o) ==
    /\ opc = "Idle"
    /\ op' = o
    /\ frame' = o
    /\ nested' = FALSE
    /\ opc' = IF o = "RepoSync.addRemote" THEN "AskRemoteName" ELSE "Resolve"
    /\ UNCHANGED <<issued, messages, resolved, dismissedAt, dismissedShown, failedAt,
                   lastFailure, gitignoreFolder, written, currentFolder, gitRepos>>

\* initRepo / addRemoteAndPush: selectWorkspaceFolderSmart({gitRepoOnly: false}) with
\* the user's answer to its quick pick, `if (!folder) return`, and isGitRepo(folder)
ResolveFolder(choice) ==
    /\ opc = "Resolve"
    /\ LET r == SelectWorkspaceFolderSmart(folders, gitRepos, activeEditor,
                                           lastSelectedFolder, FALSE)
           got == IF r.kind = "return" THEN r.target ELSE choice
           said == IF r.error # <<>> THEN <<ErrorMessage(r.error)>> ELSE <<>>
           isRepo == IsGitRepo(gitRepos, got)
           probe == Command("rev-parse --git-dir", got, [ok |-> isRepo])
       IN  /\ IF r.kind = "return" THEN choice = Undefined
              ELSE choice = Undefined \/ choice \in {it.folder : it \in r.items}
           /\ IF ~Proceeds(got)
              THEN /\ Effects(<<>>, said, r.kind = "pick", <<>>)
                   /\ IF frame = "initRepo" THEN InitRepoReturns ELSE OperationReturns
                   /\ UNCHANGED <<currentFolder, resolved>>
              ELSE /\ currentFolder' = got
                   /\ resolved' = resolved \cup {got}
                   /\ IF frame = "initRepo"
                      THEN IF isRepo
                           THEN /\ Effects(<<probe>>,
                                           <<Info(FolderName(got) \o AlreadyRepoSuffix)>>,
                                           FALSE, <<>>)
                                /\ InitRepoReturns
                           ELSE /\ Effects(<<probe>>, <<>>, FALSE, <<>>)
                                /\ GoesTo("AskBranch")
                      ELSE /\ Effects(<<probe>>, <<>>, FALSE, <<>>)
                           /\ GoesTo(IF isRepo THEN "GitRemote" ELSE "AskInit")
    /\ UNCHANGED <<op, gitignoreFolder, written, gitRepos>>

\* addRemoteAndPush: the answer to "not a repository, initialise?"
AnswerInit(answer) ==
    /\ opc = "AskInit"
    /\ IF answer = "init"
       THEN /\ opc' = "Resolve"
            /\ frame' = "initRepo"
            /\ nested' = TRUE
            /\ Effects(<<>>, <<>>, FALSE, <<>>)
       ELSE /\ OperationReturns
            /\ Effects(<<>>, <<>>, answer = "undefined", <<>>)
    /\ UNCHANGED <<op, resolved, gitignoreFolder, written, currentFolder, gitRepos>>

\* initRepo: the default branch is chosen, and `git init -b` runs
AnswerBranch(answer, res) ==
    /\ opc = "AskBranch"
    /\ IF answer = "undefined"
       THEN /\ res.ok
            /\ Effects(<<>>, <<>>, TRUE, <<>>)
            /\ InitRepoReturns
            /\ UNCHANGED gitRepos
       ELSE IF res.ok
       THEN /\ Effects(<<Command("init", currentFolder, res)>>, <<>>, FALSE, <<>>)
            /\ gitRepos' = gitRepos \cup {currentFolder}
            /\ GoesTo("AskGitignore")
       ELSE /\ Effects(<<Command("init", currentFolder, res)>>,
                       <<ErrorMessage(InitFailedPrefix \o res.message)>>, FALSE, res.message)
            /\ InitRepoReturns
            /\ UNCHANGED gitRepos
    /\ UNCHANGED <<op, resolved, gitignoreFolder, written, currentFolder>>

\* initRepo: create a .gitignore?
AnswerGitignore(answer) ==
    /\ opc = "AskGitignore"
    /\ IF answer = "yes"
       THEN /\ Effects(<<>>, <<>>, FALSE, <<>>)
            /\ GoesTo("AskTemplate")
       ELSE /\ Effects(<<>>, <<Info(InitDoneMessage)>>, answer = "undefined", <<>>)
            /\ InitRepoReturns
    /\ UNCHANGED <<op, resolved, gitignoreFolder, written, currentFolder, gitRepos>>

\* initRepo: the template is chosen; gitignoreOps.createGitignore writes into
\* the folder of the GitignoreOps object and throws when it has none
AnswerTemplate(answer) ==
    /\ opc = "AskTemplate"
    /\ IF answer = "template" /\ gitignoreFolder = Undefined
       THEN /\ Effects(<<>>, <<ErrorMessage(InitFailedPrefix \o SelectWorkspaceFirstMessage)>>,
                       FALSE, <<>>)
            /\ UNCHANGED written
       ELSE /\ Effects(<<>>, <<Info(InitDoneMessage)>>, answer = "undefined", <<>>)
            /\ written' = IF answer = "template" THEN written \cup {gitignoreFolder}
                          ELSE written
    /\ InitRepoReturns
    /\ UNCHANGED <<op, resolved, gitignoreFolder, currentFolder, gitRepos>>

\* addRemoteAndPush: `git remote` inside its try/catch
RunGitRemote(res, hasOrigin) ==
    /\ opc = "GitRemote"
    /\ res \in Outcomes(currentFolder)
    /\ hasOrigin => res.ok
    /\ Effects(<<Command("remote", currentFolder, res)>>, <<>>, FALSE, <<>>)
    /\ GoesTo(IF hasOrigin THEN "RevParseHead" ELSE "AskUrl")
    /\ UNCHANGED <<op, resolved, gitignoreFolder, written, currentFolder, gitRepos>>

\* addRemoteAndPush: the remote URL is entered, and `git remote add origin` runs
AnswerUrl(answer, res) ==
    /\ opc = "AskUrl"
    /\ IF answer = "undefined"
       THEN /\ res.ok
            /\ Effects(<<>>, <<>>, TRUE, <<>>)
            /\ OperationReturns
       ELSE /\ res \in Outcomes(currentFolder)
            /\ IF res.ok
               THEN /\ Effects(<<Command("remote add origin", currentFolder, res)>>,
                               <<Info(RemoteAddedMessage)>>, FALSE, <<>>)
                    /\ GoesTo("RevParseHead")
               ELSE /\ Effects(<<Command("remote add origin", currentFolder, res)>>,
                               <<ErrorMessage(OperationFailedPrefix \o res.message)>>,
                               FALSE, res.message)
                    /\ OperationReturns
    /\ UNCHANGED <<op, resolved, gitignoreFolder, written, currentFolder, gitRepos>>

\* addRemoteAndPush: `git rev-parse HEAD` inside its try/catch
RunRevParseHead(res) ==
    /\ opc = "RevParseHead"
    /\ res \in Outcomes(currentFolder)
    /\ Effects(<<Command("rev-parse HEAD", currentFolder, res)>>, <<>>, FALSE, <<>>)
    /\ GoesTo(IF res.ok THEN "Push" ELSE "AskCommitMessage")
    /\ UNCHANGED <<op, resolved, gitignoreFolder, written, currentFolder, gitRepos>>

\* addRemoteAndPush: the commit message is entered; `git add -A` and `git commit` run
AnswerCommitMessage(answer, resAdd, resCommit) ==
    /\ opc = "AskCommitMessage"
    /\ IF answer = "undefined"
       THEN /\ resAdd.ok /\ resCommit.ok
            /\ Effects(<<>>, <<>>, TRUE, <<>>)
            /\ OperationReturns
       ELSE /\ resAdd \in Outcomes(currentFolder)
            /\ resCommit \in Outcomes(currentFolder)
            /\ IF ~resAdd.ok
               THEN /\ resCommit = resAdd
                    /\ Effects(<<Command("add -A", currentFolder, resAdd)>>,
                               <<ErrorMessage(OperationFailedPrefix \o resAdd.message)>>,
                               FALSE, resAdd.message)
                    /\ OperationReturns
               ELSE IF ~resCommit.ok
               THEN /\ Effects(<<Command("add -A", currentFolder, resAdd),
                                 Command("commit", currentFolder, resCommit)>>,
                               <<ErrorMessage(OperationFailedPrefix \o resCommit.message)>>,
                               FALSE, resCommit.message)
                    /\ OperationReturns
               ELSE /\ Effects(<<Command("add -A", currentFolder, resAdd),
                                 Command("commit", currentFolder, resCommit)>>,
                               <<>>, FALSE, <<>>)
                    /\ GoesTo("Push")
    /\ UNCHANGED <<op, resolved, gitignoreFolder, written, currentFolder, gitRepos>>

\* addRemoteAndPush: runGitCommandWithRetry('git push -u origin HEAD') ends
RunPush(res) ==
    /\ opc = "Push"
    /\ res \in Outcomes(currentFolder)
    /\ IF res.ok
       THEN /\ Effects(<<Command("push -u origin HEAD", currentFolder, res)>>,
                       <<Info(PushSucceededMessage)>>, FALSE, <<>>)
            /\ OperationReturns
       ELSE /\ Effects(<<Command("push -u origin HEAD", currentFolder, res)>>, <<>>,
                       FALSE, res.message)
            /\ GoesTo("ForcePush")
    /\ UNCHANGED <<op, resolved, gitignoreFolder, written, currentFolder, gitRepos>>

\* addRemoteAndPush: the catch around the push;
\* runGitCommandWithRetry('git push -u origin HEAD --force') ends
RunForcePush(res) ==
    /\ opc = "ForcePush"
    /\ res \in Outcomes(currentFolder)
    /\ IF res.ok
       THEN Effects(<<Command("push -u origin HEAD --force", currentFolder, res)>>,
                    <<Info(PushSucceededMessage)>>, FALSE, <<>>)
       ELSE Effects(<<Command("push -u origin HEAD --force", currentFolder, res)>>,
                    <<ErrorMessage(OperationFailedPrefix \o res.message)>>, FALSE, res.message)
    /\ OperationReturns
    /\ UNCHANGED <<op, resolved, gitignoreFolder, written, currentFolder, gitRepos>>

\* RepoSync.addRemote: the name of the remote is entered
AnswerRemoteName(answer) ==
    /\ opc = "AskRemoteName"
    /\ IF answer = "undefined"
       THEN /\ Effects(<<>>, <<>>, TRUE, <<>>)
            /\ OperationReturns
       ELSE /\ Effects(<<>>, <<>>, FALSE, <<>>)
            /\ GoesTo("AskRemoteUrl")
    /\ UNCHANGED <<op, resolved, gitignoreFolder, written, currentFolder, gitRepos>>

\* RepoSync.addRemote: the URL is entered; runGitCommand runs `git remote add`
\* in workspaceFolders[0], and throws when there is no folder
AnswerRemoteUrl(answer, res) ==
    /\ opc = "AskRemoteUrl"
    /\ IF answer = "undefined"
       THEN /\ res.ok
            /\ Effects(<<>>, <<>>, TRUE, <<>>)
       ELSE IF folders = {}
       THEN /\ res.ok
            /\ Effects(<<>>, <<ErrorMessage(AddFailedPrefix \o NoWorkspaceMessage)>>,
                       FALSE, <<>>)
       ELSE /\ res \in Outcomes(First(folders))
            /\ IF res.ok
               THEN Effects(<<Command("remote add", First(folders), res)>>,
                            <<Info(RemoteAddedPrefix \o RemoteName)>>, FALSE, <<>>)
               ELSE Effects(<<Command("remote add", First(folders), res)>>,
                            <<ErrorMessage(AddFailedPrefix \o res.message)>>,
                            FALSE, res.message)
    /\ OperationReturns
    /\ UNCHANGED <<op, resolved, gitignoreFolder, written, currentFolder, gitRepos>>

\* the operation's promise settles
EndOperation ==
    /\ opc = "Done"
    /\ opc' = "Idle"
    /\ op' = "none"
    /\ frame' = "none"
    /\ nested' = FALSE
    /\ issued' = <<>>
    /\ messages' = <<>>
    /\ resolved' = {}
    /\ dismissedAt' = 0 - 1
    /\ dismissedShown' = 0
    /\ failedAt' = 0 - 1
    /\ lastFailure' = <<>>
    /\ written' = {}
    /\ UNCHANGED <<gitignoreFolder, currentFolder, gitRepos>>

Answers == {"given", "undefined"}

\* GitignoreOps.addGitignore, between the operations followed here: the
\* resolver's folder, when there is one, becomes the currentFolder of the
\* GitignoreOps object
AddGitignore(choice) ==
    /\ opc = "Idle"
    /\ LET r == SelectWorkspaceFolderSmart(folders, gitRepos, activeEditor,
                                           lastSelectedFolder, FALSE)
           got == IF r.kind = "return" THEN r.target ELSE choice
       IN  /\ IF r.kind = "return" THEN choice = Undefined
              ELSE choice = Undefined \/ choice \in {it.folder : it \in r.items}
           /\ got # Undefined
           /\ gitignoreFolder' = got
    /\ UNCHANGED <<op, frame, nested, opc, issued, messages, resolved, dismissedAt,
                   dismissedShown, failedAt, lastFailure, written>>

\* the workspace changes between operations
WorkspaceChanges ==
    /\ opc = "Idle"
    /\ \/ \E f \in Paths : AddWorkspaceFolder(f)
       \/ \E f \in Paths : RemoveWorkspaceFolder(f)
       \/ \E f \in Paths : SetGitRepo(f)
    /\ UNCHANGED ovars

OperationNext ==
    \/ WorkspaceChanges /\ UNCHANGED <<vars, pvars, svars, uvars, cvars, waits, yvars>>
    \/ (\E choice \in Paths \cup {Undefined} : AddGitignore(choice))
          /\ UNCHANGED <<vars, wvars, pvars, svars, uvars, cvars, waits, yvars>>
    \/ (\E o \in Operations : StartOperation(o))
          /\ UNCHANGED <<vars, pvars, svars, uvars, cvars, waits, yvars, resolverOnly>>
    \/ (\E choice \in Paths \cup {Undefined} : ResolveFolder(choice))
          /\ UNCHANGED <<vars, pvars, svars, uvars, cvars, waits, yvars, resolverOnly>>
    \/ (\E answer \in {"init", "cancel", "undefined"} : AnswerInit(answer))
          /\ UNCHANGED <<vars, pvars, svars, uvars, cvars, waits, yvars, resolverOnly>>
    \/ (\E answer \in {"main", "master", "undefined"}, res \in CommandResults :
            AnswerBranch(answer, res)) /\ UNCHANGED <<vars, pvars, svars, uvars, cvars, waits, yvars, resolverOnly>>
    \/ (\E answer \in {"yes", "no", "undefined"} : AnswerGitignore(answer))
          /\ UNCHANGED <<vars, pvars, svars, uvars, cvars, waits, yvars, resolverOnly>>
    \/ (\E answer \in {"template", "custom", "undefined"} : AnswerTemplate(answer))
          /\ UNCHANGED <<vars, pvars, svars, uvars, cvars, waits, yvars, resolverOnly>>
    \/ (\E res \in AllResults, hasOrigin \in BOOLEAN :
            RunGitRemote(res, hasOrigin)) /\ UNCHANGED <<vars, pvars, svars, uvars, cvars, waits, yvars, resolverOnly>>
    \/ (\E answer \in Answers, res \in AllResults :
            AnswerUrl(answer, res)) /\ UNCHANGED <<vars, pvars, svars, uvars, cvars, waits, yvars, resolverOnly>>
    \/ (\E res \in AllResults : RunRevParseHead(res))
          /\ UNCHANGED <<vars, pvars, svars, uvars, cvars, waits, yvars, resolverOnly>>
    \/ (\E answer \in Answers, resAdd, resCommit \in AllResults :
            AnswerCommitMessage(answer, resAdd, resCommit))
          /\ UNCHANGED <<vars, pvars, svars, uvars, cvars, waits, yvars, resolverOnly>>
    \/ (\E res \in AllResults : RunPush(res))
          /\ UNCHANGED <<vars, pvars, svars, uvars, cvars, waits, yvars, resolverOnly>>
    \/ (\E res \in AllResults : RunForcePush(res))
          /\ UNCHANGED <<vars, pvars, svars, uvars, cvars, waits, yvars, resolverOnly>>
    \/ (\E answer \in Answers : AnswerRemoteName(answer))
          /\ UNCHANGED <<vars, pvars, svars, uvars, cvars, waits, yvars, resolverOnly>>
    \/ (\E answer \in Answers, res \in AllResults :
            AnswerRemoteUrl(answer, res)) /\ UNCHANGED <<vars, pvars, svars, uvars, cvars, waits, yvars, resolverOnly>>
    \/ EndOperation /\ UNCHANGED <<vars, pvars, svars, uvars, cvars, waits, yvars, resolverOnly>>

SpecOperation == Init /\ [][OperationNext]_<<vars, wvars, xvars>>

----------------------------------------------------------------------------
(* Claims about operations *)

\* C21 (as claimed): once the user has dismissed a prompt of an operation, the
\* operation issues no further git command and shows no error message.
C21_DismissalEndsSilently ==
    dismissedAt >= 0 =>
        /\ Len(issued) = dismissedAt
        /\ \A k \in (dismissedShown + 1)..Len(messages) : messages[k].kind # "error"

\* C22 (as claimed): in a workspace with more than one folder, every command
\* of an operation runs in a folder the resolver returned to that operation.
C22_CommandsRunWhereResolved ==
    Cardinality(folders) > 1 =>
        \A k \in 1..Len(issued) : issued[k].cwd \in resolved

\* C24 (as claimed): once a step of an operation has ended in a Failure the
\* operation did not recover from, it issues no further command.
C24_FailureAbortsTheRemainingSteps ==
    failedAt >= 0 => Len(issued) = failedAt

\* C25 (as claimed): an operation in which a unit of work ended in an
\* unrecovered Failure ends with an error message carrying the text of the
\* last Failure, never with a confirmation.
C25_FailureEndsInItsErrorMessage ==
    (opc = "Done" /\ failedAt >= 0) =>
        /\ Len(messages) > 0
        /\ messages[Len(messages)].kind = "error"
        /\ Includes(messages[Len(messages)].text, lastFailure)

----------------------------------------------------------------------------
(* SecretStorage: the saved credentials, one JSON text under STORAGE_KEY   *)
(* in the host's secret storage.  saveSecret and deleteSecret read the     *)
(* text, change the parsed list and store the new text; a call is at its   *)
(* await of secrets.get ("reading") or of secrets.store ("writing").       *)

NotInitializedMessage ==
    <<"U5BC6", "U94A5", "U5B58", "U50A8", "U672A", "U521D", "U59CB", "U5316">>

SecretNames == {"NUGET_API_KEY", "NPM_TOKEN"}

SecretValues == {"v1", "v2"}

\* `undefined`, as a description
NoDescription == "undefined"

Descriptions == {NoDescription, "for repo"}

SavedSecret(name, value, description, createdAt, updatedAt) ==
    [name |-> name, value |-> value, description |-> description,
     createdAt |-> createdAt, updatedAt |-> updatedAt]

\* JSON.stringify of one entry: a property that is undefined is left out
StringifyEntry(e) ==
    IF e.description = NoDescription
    THEN [name |-> e.name, value |-> e.value,
          createdAt |-> e.createdAt, updatedAt |-> e.updatedAt]
    ELSE e

\* JSON.stringify(secrets), as the stored value
JsonStringify(secrets) ==
    [present |-> TRUE, json |-> [k \in 1..Len(secrets) |-> StringifyEntry(secrets[k])]]

\* an entry of the parsed text: a property that is missing reads as undefined
ParseEntry(j) ==
    SavedSecret(j.name, j.value,
                IF "description" \in DOMAIN j THEN j.description ELSE NoDescription,
                j.createdAt, j.updatedAt)

\* getSavedSecrets, given how secrets.get ended
GetSavedSecrets(ready, data, readOk) ==
    IF ~ready THEN <<>>
    ELSE IF readOk /\ data.present
    THEN [k \in 1..Len(data.json) |-> ParseEntry(data.json[k])]
    ELSE <<>>

\* secrets.findIndex(s => s.name === name), counted from 1; 0 for -1
FindIndex(secrets, name) ==
    IF \E k \in 1..Len(secrets) : secrets[k].name = name
    THEN CHOOSE k \in 1..Len(secrets) :
            /\ secrets[k].name = name
            /\ \A j \in 1..(k - 1) : secrets[j].name # name
    ELSE 0

\* saveSecret: the list it stores
SaveInto(secrets, name, value, description, t) ==
    LET existingIndex == FindIndex(secrets, name) IN
    IF existingIndex >= 1
    THEN [secrets EXCEPT ![existingIndex] =
             SavedSecret(name, value, description,
                         IF secrets[existingIndex].createdAt # 0
                         THEN secrets[existingIndex].createdAt ELSE t,
                         t)]
    ELSE Append(secrets, SavedSecret(name, value, description, t, t))

\* deleteSecret: the list it stores
DeleteFrom(secrets, name) == SelectSeq(secrets, LAMBDA e : e.name # name)

\* secrets.store keeping the entries of the stored text that the new text lacks
StoreMerging(data, text) ==
    IF data.present
    THEN [present |-> TRUE,
          json |-> text.json \o SelectSeq(data.json,
                       LAMBDA j : \A k \in 1..Len(text.json) : text.json[k].name # j.name)]
    ELSE text

\* secrets.store(STORAGE_KEY, text): the text replaces what was stored
Store(data, text) == text

\* the stored list, read without failure
Stored == GetSavedSecrets(TRUE, vault, TRUE)

\* activate: secretStorage.initialize(context.secrets)
Initialize ==
    /\ ~secretsReady
    /\ secretsReady' = TRUE
    /\ UNCHANGED <<vault, now, calls, writes, storageErrors>>

\* time passes
Tick ==
    /\ now < MaxTime
    /\ now' = now + 1
    /\ UNCHANGED <<secretsReady, vault, calls, writes, storageErrors>>

\* a saveSecret call at its start
SaveCall(name, value, description) ==
    [kind |-> "save", name |-> name, value |-> value, description |-> description,
     at |-> IF secretsReady THEN "reading" ELSE "returned",
     ready |-> secretsReady, before |-> Stored, readOk |-> TRUE,
     readAt |-> writes, wroteAt |-> 0, time |-> 0,
     secrets |-> <<>>, text |-> NoData]

\* saveSecret is called: without a storage it shows an error and returns,
\* otherwise it awaits getSavedSecrets
SaveSecret(slot, name, value, description) ==
    /\ calls[slot].kind = "none"
    /\ calls' = [calls EXCEPT ![slot] = SaveCall(name, value, description)]
    /\ storageErrors' = IF secretsReady THEN storageErrors
                        ELSE Append(storageErrors, NotInitializedMessage)
    /\ UNCHANGED <<secretsReady, vault, now, writes>>

\* deleteSecret is called: without a storage it returns, otherwise it awaits
\* getSavedSecrets
DeleteSecret(slot, name) ==
    /\ calls[slot].kind = "none"
    /\ calls' = [calls EXCEPT ![slot] =
                    [kind |-> "delete", name |-> name, value |-> "",
                     description |-> NoDescription,
                     at |-> IF secretsReady THEN "reading" ELSE "returned",
                     ready |-> secretsReady, before |-> Stored, readOk |-> TRUE,
                     readAt |-> writes, wroteAt |-> 0, time |-> 0,
                     secrets |-> <<>>, text |-> NoData]]
    /\ UNCHANGED <<secretsReady, vault, now, writes, storageErrors>>

\* secrets.get settles (readOk: it resolved, and with nothing or with a text
\* that JSON.parse accepts), getSavedSecrets returns, and the
\* call changes the list and calls secrets.store
ReadCompletes(slot, readOk) ==
    /\ calls[slot].kind # "none"
    /\ calls[slot].at = "reading"
    /\ LET c == calls[slot]
           secrets == GetSavedSecrets(secretsReady, vault, readOk)
           changed == IF c.kind = "save"
                      THEN SaveInto(secrets, c.name, c.value, c.description, now)
                      ELSE DeleteFrom(secrets, c.name)
       IN  calls' = [calls EXCEPT ![slot] =
                        [c EXCEPT !.at = "writing", !.readOk = readOk, !.readAt = writes,
                                  !.time = now, !.secrets = secrets,
                                  !.text = JsonStringify(changed)]]
    /\ UNCHANGED <<secretsReady, vault, now, writes, storageErrors>>

\* secrets.store settles and the call returns
WriteCompletes(slot) ==
    /\ calls[slot].kind # "none"
    /\ calls[slot].at = "writing"
    /\ vault' = Store(vault, calls[slot].text)
    /\ writes' = writes + 1
    /\ calls' = [calls EXCEPT ![slot] = [@ EXCEPT !.at = "returned", !.wroteAt = writes + 1]]
    /\ UNCHANGED <<secretsReady, now, storageErrors>>

\* the caller is done with the call's result
CallEnds(slot) ==
    /\ dialog = NoDialog
    /\ calls[slot].kind # "none"
    /\ calls[slot].at = "returned"
    /\ \A other \in Slots : calls[other].kind # "none" => calls[other].at = "returned"
    /\ calls' = [other \in Slots |-> NoSecretCall]
    /\ writes' = 0
    /\ storageErrors' = <<>>
    /\ UNCHANGED <<secretsReady, vault, now>>

\* the names a credential can be renamed to
NewNames == SecretNames \cup {"GITHUB_TOKEN"}

\* editSecretDialog: the list is read, the user picks the k-th credential,
\* '修改名称' and a new name, and the dialog calls deleteSecret of the old name
RenameStarts(k, newName, readOk) ==
    /\ dialog = NoDialog
    /\ k \in 1..Len(GetSavedSecrets(secretsReady, vault, readOk))
    /\ LET secret == GetSavedSecrets(secretsReady, vault, readOk)[k] IN
          /\ newName # secret.name
          /\ dialog' = [at |-> "deleting", secret |-> secret, newName |-> newName,
                        before |-> Stored]
          /\ DeleteSecret("first", secret.name)

\* deleteSecret has returned: the dialog calls saveSecret of the new name with
\* the value and the description it read
RenameSaves ==
    /\ dialog.at = "deleting"
    /\ calls["first"].at = "returned"
    /\ dialog' = [dialog EXCEPT !.at = "saving"]
    /\ calls' = [calls EXCEPT !["first"] =
                    SaveCall(dialog.newName, dialog.secret.value, dialog.secret.description)]
    /\ UNCHANGED <<secretsReady, vault, now, writes, storageErrors>>

\* saveSecret has returned: the dialog confirms the new name
RenameEnds ==
    /\ dialog.at = "saving"
    /\ calls["first"].at = "returned"
    /\ dialog' = [dialog EXCEPT !.at = "done"]
    /\ UNCHANGED svars

\* the dialog is closed
DialogCloses ==
    /\ dialog.at = "done"
    /\ dialog' = NoDialog
    /\ calls' = [other \in Slots |-> NoSecretCall]
    /\ writes' = 0
    /\ UNCHANGED <<secretsReady, vault, now, storageErrors>>

\* the credentials are saved and renamed, one call at a time
RenameNext ==
    \/ Initialize /\ UNCHANGED <<vars, wvars, pvars, ovars, uvars, cvars, waits, yvars>>
    \/ (\E name \in SecretNames, value \in SecretValues :
            SaveSecret("first", name, value, NoDescription))
          /\ UNCHANGED <<vars, wvars, pvars, ovars, uvars, cvars, waits, yvars>>
    \/ (\E readOk \in BOOLEAN : ReadCompletes("first", readOk))
          /\ UNCHANGED <<vars, wvars, pvars, ovars, uvars, cvars, waits, yvars>>
    \/ WriteCompletes("first")
          /\ UNCHANGED <<vars, wvars, pvars, ovars, uvars, cvars, waits, yvars>>
    \/ CallEnds("first") /\ UNCHANGED <<vars, wvars, pvars, ovars, uvars, cvars, waits, yvars>>
    \/ (\E k \in 1..Cardinality(NewNames), newName \in NewNames, readOk \in BOOLEAN :
            RenameStarts(k, newName, readOk))
          /\ UNCHANGED <<vars, wvars, pvars, ovars, uvars, cvars, waits, rvars, tvars>>
    \/ RenameSaves /\ UNCHANGED <<vars, wvars, pvars, ovars, uvars, cvars, waits, rvars, tvars>>
    \/ RenameEnds /\ UNCHANGED <<vars, wvars, pvars, ovars, uvars, cvars, waits, rvars, tvars>>
    \/ DialogCloses /\ UNCHANGED <<vars, wvars, pvars, ovars, uvars, cvars, waits, rvars, tvars>>

SpecRename == Init /\ [][RenameNext]_<<vars, wvars, xvars>>

\* calls run one at a time
SecretsNext ==
    \/ Initialize /\ UNCHANGED <<vars, wvars, pvars, ovars, uvars, cvars, waits, yvars>>
    \/ Tick /\ UNCHANGED <<vars, wvars, pvars, ovars, uvars, cvars, waits, yvars>>
    \/ (\E name \in SecretNames, value \in SecretValues, description \in Descriptions :
            SaveSecret("first", name, value, description))
          /\ UNCHANGED <<vars, wvars, pvars, ovars, uvars, cvars, waits, yvars>>
    \/ (\E name \in SecretNames : DeleteSecret("first", name))
          /\ UNCHANGED <<vars, wvars, pvars, ovars, uvars, cvars, waits, yvars>>
    \/ (\E readOk \in BOOLEAN : ReadCompletes("first", readOk))
          /\ UNCHANGED <<vars, wvars, pvars, ovars, uvars, cvars, waits, yvars>>
    \/ WriteCompletes("first")
          /\ UNCHANGED <<vars, wvars, pvars, ovars, uvars, cvars, waits, yvars>>
    \/ CallEnds("first") /\ UNCHANGED <<vars, wvars, pvars, ovars, uvars, cvars, waits, yvars>>

SpecSecrets == Init /\ [][SecretsNext]_<<vars, wvars, xvars>>

\* calls may overlap: a second one starts while the first awaits
OverlapNext ==
    \/ Initialize /\ UNCHANGED <<vars, wvars, pvars, ovars, uvars, cvars, waits, yvars>>
    \/ (\E slot \in Slots, name \in SecretNames, value \in SecretValues :
            SaveSecret(slot, name, value, NoDescription))
          /\ UNCHANGED <<vars, wvars, pvars, ovars, uvars, cvars, waits, yvars>>
    \/ (\E slot \in Slots, name \in SecretNames : DeleteSecret(slot, name))
          /\ UNCHANGED <<vars, wvars, pvars, ovars, uvars, cvars, waits, yvars>>
    \/ (\E slot \in Slots, readOk \in BOOLEAN : ReadCompletes(slot, readOk))
          /\ UNCHANGED <<vars, wvars, pvars, ovars, uvars, cvars, waits, yvars>>
    \/ (\E slot \in Slots : WriteCompletes(slot))
          /\ UNCHANGED <<vars, wvars, pvars, ovars, uvars, cvars, waits, yvars>>
    \/ (\E slot \in Slots : CallEnds(slot))
          /\ UNCHANGED <<vars, wvars, pvars, ovars, uvars, cvars, waits, yvars>>

SpecSecretsOverlap == Init /\ [][OverlapNext]_<<vars, wvars, xvars>>

----------------------------------------------------------------------------
(* Claims about the saved credentials *)

StoredNames == {Stored[k].name : k \in 1..Len(Stored)}

EntryOf(secrets, name) == secrets[FindIndex(secrets, name)]

\* C28 (as claimed): with calls run one at a time from an empty store, no two
\* stored entries share a name; a saveSecret on a stored name replaces value
\* and description, keeps createdAt and sets updatedAt; a deleteSecret leaves
\* no entry of that name and every other entry as it was.
C28_StoreIsAMappingByName ==
    LET c == calls["first"] IN
    /\ \A j, k \in 1..Len(Stored) : Stored[j].name = Stored[k].name => j = k
    /\ (c.kind = "save" /\ c.at = "returned" /\ c.ready /\ FindIndex(c.before, c.name) >= 1) =>
          /\ c.name \in StoredNames
          /\ EntryOf(Stored, c.name) =
                SavedSecret(c.name, c.value, c.description,
                            EntryOf(c.before, c.name).createdAt, c.time)
    /\ (c.kind = "delete" /\ c.at = "returned" /\ c.ready) =>
          /\ c.name \notin StoredNames
          /\ Stored = SelectSeq(c.before, LAMBDA e : e.name # c.name)

\* both calls have returned, and each read before either wrote
Overlapped ==
    /\ \A slot \in Slots : calls[slot].kind # "none" /\ calls[slot].at = "returned"
                           /\ calls[slot].ready /\ calls[slot].readAt = 0
    /\ writes = Cardinality(Slots)

Later == CHOOSE slot \in Slots : calls[slot].wroteAt = writes

Earlier == CHOOSE slot \in Slots : slot # Later

\* what a call makes of a list
Applied(c, secrets) ==
    IF c.kind = "save" THEN SaveInto(secrets, c.name, c.value, c.description, c.time)
    ELSE DeleteFrom(secrets, c.name)

\* C29: when two saveSecret / deleteSecret calls overlap, both reading before
\* either writes, the store ends as the later writer's text, made from what
\* that call read: the earlier writer's change is not in it.
C29_LaterWriteReplacesTheBlob ==
    Overlapped =>
        /\ vault = calls[Later].text
        /\ Stored = Applied(calls[Later], calls[Later].secrets)
        /\ (calls[Earlier].kind = "save" /\ calls[Earlier].name # calls[Later].name
               /\ calls[Earlier].name \notin {e.name : e \in {calls[Earlier].before[k] :
                                                 k \in 1..Len(calls[Earlier].before)}}) =>
              calls[Earlier].name \notin StoredNames
        /\ (calls[Earlier].kind = "delete" /\ calls[Earlier].name # calls[Later].name
               /\ calls[Later].readOk
               /\ FindIndex(calls[Earlier].before, calls[Earlier].name) >= 1) =>
              calls[Earlier].name \in StoredNames

\* C29 witness: two overlapping saves of different names, one entry stored
C29_Witness ==
    /\ Overlapped
    /\ calls["first"].kind = "save"
    /\ calls["second"].kind = "save"
    /\ calls["first"].name # calls["second"].name
    /\ calls["first"].readOk /\ calls["second"].readOk
    /\ Len(Stored) = 1

----------------------------------------------------------------------------
(* parseGitHubUrl: the owner and the repository of a remote URL.           *)
(* A URL is the tuple of its characters.                                   *)

\* String.match found nothing
NoMatch == <<>>

HttpsLiteral == <<"g", "i", "t", "h", "u", "b", ".", "c", "o", "m", "/">>

SshLiteral == <<"g", "i", "t", "h", "u", "b", ".", "c", "o", "m", ":">>

DotGit == <<".", "g", "i", "t">>

\* the literal lit stands in s from position k on
StandsAt(s, lit, k) ==
    /\ k + Len(lit) - 1 <= Len(s)
    /\ SubSeq(s, k, k + Len(lit) - 1) = lit

\* the longest run of characters outside `stop` that starts at position k
RunEnd(s, k, stop) ==
    CHOOSE e \in (k - 1)..Len(s) :
        /\ \A j \in k..e : s[j] \notin stop
        /\ e = Len(s) \/ s[e + 1] \in stop

\* lit([^/]+)\/([^/.]+) matched from position k on: the two groups, or NoMatch
MatchAt(s, lit, k) ==
    IF ~StandsAt(s, lit, k) THEN NoMatch
    ELSE LET o1 == k + Len(lit)
             o2 == RunEnd(s, o1, {"/"})
         IN  IF o2 < o1 \/ o2 = Len(s) THEN NoMatch
             ELSE LET r1 == o2 + 2
                      r2 == RunEnd(s, r1, {"/", "."})
                  IN  IF r2 < r1 THEN NoMatch
                      ELSE <<SubSeq(s, o1, o2), SubSeq(s, r1, r2)>>

\* remoteUrl.match(/lit([^/]+)\/([^/.]+)/): the leftmost match, or NoMatch
Match(s, lit) ==
    IF \E k \in 1..Len(s) : MatchAt(s, lit, k) # NoMatch
    THEN MatchAt(s, lit, CHOOSE k \in 1..Len(s) :
                            /\ MatchAt(s, lit, k) # NoMatch
                            /\ \A j \in 1..(k - 1) : MatchAt(s, lit, j) = NoMatch)
    ELSE NoMatch

\* s.replace(pattern, ''): the first occurrence of the pattern is cut out
ReplaceFirst(s, pattern) ==
    IF \E k \in 1..Len(s) : StandsAt(s, pattern, k)
    THEN LET k == CHOOSE k \in 1..Len(s) :
                     /\ StandsAt(s, pattern, k)
                     /\ \A j \in 1..(k - 1) : ~StandsAt(s, pattern, j)
         IN  SubSeq(s, 1, k - 1) \o SubSeq(s, k + Len(pattern), Len(s))
    ELSE s

ParseGitHubUrl(url) ==
    LET httpsMatch == Match(url, HttpsLiteral)
        sshMatch == Match(url, SshLiteral)
        match == IF httpsMatch # NoMatch THEN httpsMatch ELSE sshMatch
    IN  IF match # NoMatch
        THEN [owner |-> match[1], repo |-> ReplaceFirst(match[2], DotGit)]
        ELSE Null

\* what comes before the owner, by shape of URL
Prefixes ==
    [https |-> <<"h", "t", "t", "p", "s", ":", "/", "/", "g", "i", "t", "h", "u", "b", ".", "c", "o", "m", "/">>,
     ssh |-> <<"g", "i", "t", "@", "g", "i", "t", "h", "u", "b", ".", "c", "o", "m", ":">>,
     otherHost |-> <<"h", "t", "t", "p", "s", ":", "/", "/", "g", "i", "t", "l", "a", "b", ".", "c", "o", "m", "/">>,
     otherSsh |-> <<"g", "i", "t", "@", "g", "i", "t", "l", "a", "b", ".", "c", "o", "m", ":">>,
     mirror |-> <<"h", "t", "t", "p", "s", ":", "/", "/", "e", "x", "a", "m", "p", "l", "e", ".", "c", "o", "m", "/", "g", "i", "t", "h", "u", "b", ".", "c", "o", "m", "/">>]

Shapes == DOMAIN Prefixes

Owners ==
    {<<"l", "i", "y", "u", "4", "7", "3">>,
     <<"m", "y", "-", "o", "r", "g">>,
     <<"o">>}

RepoNames ==
    {<<"L", "y", "u", "G", "i", "t", "V", "S", "C", "o", "d", "e", "E", "x">>,
     <<"m", "y", ".", "r", "e", "p", "o">>,
     <<"s", "i", "t", "e", ".", "g", "i", "t", "h", "u", "b", ".", "i", "o">>,
     <<"r">>}

Suffixes == {<<>>, DotGit}

RemoteUrl(parts) ==
    Prefixes[parts.shape] \o parts.owner \o <<"/">> \o parts.name \o parts.suffix

\* getRepoUrl: `git remote get-url origin` prints the URL of the remote
GetRepoUrl(parts) ==
    /\ remoteParts' = parts
    /\ remoteUrl' = RemoteUrl(parts)
    /\ parsed' = Unparsed

\* the caller of getRepoUrl parses what it got
ParseRemoteUrl ==
    /\ remoteParts # NoRemote
    /\ parsed = Unparsed
    /\ parsed' = ParseGitHubUrl(remoteUrl)
    /\ UNCHANGED <<remoteUrl, remoteParts>>

RemoteNext ==
    \/ (\E shape \in Shapes, owner \in Owners, name \in RepoNames, suffix \in Suffixes :
            GetRepoUrl([shape |-> shape, owner |-> owner, name |-> name,
                        suffix |-> suffix]))
          /\ UNCHANGED <<vars, wvars, pvars, ovars, svars, cvars, waits, yvars>>
    \/ ParseRemoteUrl /\ UNCHANGED <<vars, wvars, pvars, ovars, svars, cvars, waits, yvars>>

SpecRemote == Init /\ [][RemoteNext]_<<vars, wvars, xvars>>

\* C30 (as claimed): a URL of one of the two GitHub shapes is parsed to its
\* owner and to its whole last path segment less a trailing '.git'; a URL of
\* neither shape is parsed to null.
C30_BothShapesParseToOwnerAndRepo ==
    (remoteParts # NoRemote /\ parsed # Unparsed) =>
        IF remoteParts.shape \in {"https", "ssh"}
        THEN parsed = [owner |-> remoteParts.owner, repo |-> remoteParts.name]
        ELSE parsed = Null

----------------------------------------------------------------------------
(* Commands: the registered command handlers and the webview's buttons.    *)
(* A handler is at its target resolution ("resolving") or past it          *)
(* ("running") until it returns.                                           *)

CommandIds == {"lyugitex.initRepo", "lyugitex.addRemoteAndPush"}

\* where a command is started from: a webview button, or the command
\* palette, a key binding or the tree view
Origins == {"webview", "palette"}

\* vscode.commands.executeCommand(commandId): wrapCommand calls the handler
ExecuteCommand(id, commandId, origin) ==
    /\ inFlight[id] = NoHandler
    /\ inFlight' = [inFlight EXCEPT ![id] =
                       [at |-> "resolving", commandId |-> commandId,
                        origin |-> origin, target |-> Undefined]]

\* a click on an enabled button: the listener posts startLoading, which
\* disables the button of that command, and executes the command
ClickButton(id, commandId) ==
    /\ commandId \notin disabled
    /\ ExecuteCommand(id, commandId, "webview")
    /\ disabled' = disabled \cup {commandId}

\* the command is run from outside the webview
RunCommand(id, commandId) ==
    /\ ExecuteCommand(id, commandId, "palette")
    /\ UNCHANGED disabled

\* the handler's target resolution returns a folder
TargetResolved(id, folder) ==
    /\ inFlight[id].at = "resolving"
    /\ inFlight' = [inFlight EXCEPT ![id] = [@ EXCEPT !.at = "running", !.target = folder]]
    /\ UNCHANGED disabled

\* the handler returns; the listener posts stopLoading for its command
CommandReturns(id) ==
    /\ inFlight[id] # NoHandler
    /\ inFlight' = [inFlight EXCEPT ![id] = NoHandler]
    /\ disabled' = IF inFlight[id].origin = "webview"
                   THEN disabled \ {inFlight[id].commandId}
                   ELSE disabled

CommandsNext ==
    \/ (\E id \in Handlers, commandId \in CommandIds : ClickButton(id, commandId))
          /\ UNCHANGED <<vars, wvars, pvars, ovars, svars, uvars, waits, yvars>>
    \/ (\E id \in Handlers, commandId \in CommandIds : RunCommand(id, commandId))
          /\ UNCHANGED <<vars, wvars, pvars, ovars, svars, uvars, waits, yvars>>
    \/ (\E id \in Handlers, folder \in Paths : TargetResolved(id, folder))
          /\ UNCHANGED <<vars, wvars, pvars, ovars, svars, uvars, waits, yvars>>
    \/ (\E id \in Handlers : CommandReturns(id))
          /\ UNCHANGED <<vars, wvars, pvars, ovars, svars, uvars, waits, yvars>>

SpecCommands == Init /\ [][CommandsNext]_<<vars, wvars, xvars>>

\* C26 (as claimed): no two operations are in flight at once, each between its
\* target resolution and its return, against the same Target.
C26_OneOperationPerTarget ==
    \A a, b \in Handlers :
        (a # b /\ inFlight[a].at = "running" /\ inFlight[b].at = "running") =>
            inFlight[a].target # inFlight[b].target

----------------------------------------------------------------------------
(* Suspensions: every child process the program spawns and every HTTP      *)
(* request it issues, with the timeout option it was given.                *)

\* no timeout option: child_process.exec then waits for as long as it takes
NoTimeout == 0

\* a child process or a request, started by `by`
Wait(by, timeout) == [by |-> by, timeout |-> timeout, state |-> "pending"]

Spawn(by, timeout) ==
    /\ Len(waits) < MaxWaits
    /\ waits' = Append(waits, Wait(by, timeout))

\* WorkspaceManager.isGitRepo, during target resolution
IsGitRepoSpawns == Spawn("WorkspaceManager.isGitRepo", NoTimeout)

\* GitHubApi.getRepoUrl, the remote-URL lookup
GetRepoUrlSpawns == Spawn("GitHubApi.getRepoUrl", NoTimeout)

\* GitBase.runGitCommand, as the retry loop and isGitRepo of GitBase call it
RunGitCommandSpawns == Spawn("GitBase.runGitCommand", GetGitTimeout(timeoutSettings))

\* GitHubApi.githubRequest, as githubRequestWithProgress calls it
GithubRequestIssued == Spawn("GitHubApi.githubRequest", timeoutSettings.network)

\* the process exits, or the response arrives
WaitSettles(k) ==
    /\ waits[k].state = "pending"
    /\ waits' = [waits EXCEPT ![k].state = "settled"]

\* the timeout of the wait elapses: the process is killed, the request destroyed
WaitTimesOut(k) ==
    /\ waits[k].state = "pending"
    /\ waits[k].timeout # NoTimeout
    /\ waits' = [waits EXCEPT ![k].state = "timedOut"]

SuspensionNext ==
    \/ IsGitRepoSpawns /\ UNCHANGED <<vars, wvars, pvars, ovars, svars, uvars, cvars, yvars>>
    \/ GetRepoUrlSpawns /\ UNCHANGED <<vars, wvars, pvars, ovars, svars, uvars, cvars, yvars>>
    \/ RunGitCommandSpawns /\ UNCHANGED <<vars, wvars, pvars, ovars, svars, uvars, cvars, yvars>>
    \/ GithubRequestIssued /\ UNCHANGED <<vars, wvars, pvars, ovars, svars, uvars, cvars, yvars>>
    \/ (\E k \in 1..Len(waits) : WaitSettles(k))
          /\ UNCHANGED <<vars, wvars, pvars, ovars, svars, uvars, cvars, yvars>>
    \/ (\E k \in 1..Len(waits) : WaitTimesOut(k))
          /\ UNCHANGED <<vars, wvars, pvars, ovars, svars, uvars, cvars, yvars>>

SpecSuspension == Init /\ [][SuspensionNext]_<<vars, wvars, xvars>>

\* C27 (as claimed): every child process spawned and every HTTP request
\* issued, those of target resolution and of the remote-URL lookup included,
\* is given a timeout.
C27_EveryWaitHasATimeout ==
    \A k \in 1..Len(waits) : waits[k].timeout # NoTimeout

----------------------------------------------------------------------------
(* Claims about the outcome of a retry invocation for every retryCount *)

\* C32 (as claimed): whatever retryCount is configured, zero and negative
\* values included, runGitCommandWithRetry ends by returning a string or by
\* throwing an Error that carries a message, and githubRequestWithProgress
\* ends by returning a response or null and never rejects.
C32_OutcomeIsWellFormed ==
    /\ pc # "Rejected"
    /\ (pc = "Failed" /\ ~IsApi(loop)) => (thrown # Null /\ "message" \in DOMAIN thrown)
    /\ (pc \in {"Failed", "Cancelled"} /\ IsApi(loop)) => returned = Null

----------------------------------------------------------------------------
(* One githubRequest call, event by event: the promise executor issues the *)
(* request, and the 'end' handler, the timeout callback and the 'error'    *)
(* handler each call resolve or reject when their event comes.             *)

\* resolve / reject where the last call decides the outcome
SettleLastWins(p, outcome) == [state |-> "settled", outcome |-> outcome]

\* resolve(value) / reject(error) on a promise: only the first call settles it
Settle(p, outcome) ==
    IF p.state = "pending" THEN [state |-> "settled", outcome |-> outcome] ELSE p

\* a handler calls resolve or reject with what GithubRequest makes of the event
HandlerSettles(ev) ==
    /\ promise' = Settle(promise, GithubRequest(ev))
    /\ settleCalls' = Append(settleCalls, ev)

\* githubRequest is called: https.request returns the request
IssueRequest ==
    /\ ~request.issued
    /\ request' = [NoRequest EXCEPT !.issued = TRUE]
    /\ UNCHANGED <<promise, settleCalls>>

\* https.request throws inside the executor: the promise is rejected and no
\* handler is registered
RequestThrows(ev) ==
    /\ ~request.issued
    /\ ev.kind = "throw"
    /\ request' = [NoRequest EXCEPT !.issued = TRUE, !.destroyed = TRUE,
                                    !.ended = TRUE, !.errored = TRUE]
    /\ HandlerSettles(ev)

\* the response arrives: the callback of https.request registers the
\* 'data' and 'end' handlers, with data = ''
ResponseStarts(ev) ==
    /\ request.issued /\ ~request.ended
    /\ request.response.kind = "none"
    /\ ev.kind = "end"
    /\ request' = [request EXCEPT !.response = ev]
    /\ UNCHANGED <<promise, settleCalls>>

\* the response's 'data' event: data += chunk
DataArrives ==
    /\ request.response.kind = "end" /\ ~request.ended
    /\ request.data # request.response.body
    /\ request' = [request EXCEPT !.data = request.response.body]
    /\ UNCHANGED <<promise, settleCalls>>

\* the response's 'end' event, after all of the body has arrived
ResponseEnds ==
    /\ request.response.kind = "end" /\ ~request.ended
    /\ request.data = request.response.body
    /\ request' = [request EXCEPT !.ended = TRUE]
    /\ HandlerSettles([request.response EXCEPT !.body = request.data])

\* the timeout callback: req.destroy(), then reject
TimeoutFires(ev) ==
    /\ request.issued /\ ~request.destroyed
    /\ ev.kind = "timeout"
    /\ request' = [request EXCEPT !.destroyed = TRUE]
    /\ HandlerSettles(ev)

\* the request's 'error' event, which also follows a destroy
RequestErrors(ev) ==
    /\ request.issued /\ ~request.errored
    /\ ev.kind = "error"
    /\ request' = [request EXCEPT !.errored = TRUE, !.destroyed = TRUE]
    /\ HandlerSettles(ev)

\* the caller has taken the outcome; the next call starts afresh
RequestForgotten ==
    /\ promise.state = "settled"
    /\ request' = NoRequest
    /\ promise' = Pending
    /\ settleCalls' = <<>>

RequestNext ==
    \/ IssueRequest
          /\ UNCHANGED <<vars, wvars, pvars, ovars, svars, uvars, cvars, waits, dialog, tvars>>
    \/ (\E ev \in RequestEvents : RequestThrows(ev))
          /\ UNCHANGED <<vars, wvars, pvars, ovars, svars, uvars, cvars, waits, dialog, tvars>>
    \/ (\E ev \in RequestEvents : ResponseStarts(ev))
          /\ UNCHANGED <<vars, wvars, pvars, ovars, svars, uvars, cvars, waits, dialog, tvars>>
    \/ DataArrives
          /\ UNCHANGED <<vars, wvars, pvars, ovars, svars, uvars, cvars, waits, dialog, tvars>>
    \/ ResponseEnds
          /\ UNCHANGED <<vars, wvars, pvars, ovars, svars, uvars, cvars, waits, dialog, tvars>>
    \/ (\E ev \in RequestEvents : TimeoutFires(ev))
          /\ UNCHANGED <<vars, wvars, pvars, ovars, svars, uvars, cvars, waits, dialog, tvars>>
    \/ (\E ev \in RequestEvents : RequestErrors(ev))
          /\ UNCHANGED <<vars, wvars, pvars, ovars, svars, uvars, cvars, waits, dialog, tvars>>
    \/ RequestForgotten
          /\ UNCHANGED <<vars, wvars, pvars, ovars, svars, uvars, cvars, waits, dialog, tvars>>

SpecRequest == Init /\ [][RequestNext]_<<vars, wvars, xvars>>

\* C33: a githubRequest call settles once, with the outcome of the first
\* handler that called resolve or reject: after the timeout fired first, a
\* later 'error' or 'end' event leaves the timeout failure in place, and the
\* outcome is either a value or a failure, never both.
C33_SettlesOnceWithTheFirstOutcome ==
    /\ promise.state = "settled" <=> settleCalls # <<>>
    /\ promise.state = "settled" =>
          /\ promise.outcome = GithubRequest(settleCalls[1])
          /\ settleCalls[1].kind = "timeout" =>
                promise.outcome = [ok |-> FALSE, value |-> Null,
                                   error |-> Error(RequestTimeoutMessage)]
          /\ promise.outcome.ok <=> promise.outcome.error = Null
          /\ ~promise.outcome.ok <=> promise.outcome.value = Null

\* C33 witness: the timeout fired, then the destroyed request emitted 'error'
C33_Witness ==
    /\ Len(settleCalls) >= 2
    /\ settleCalls[1].kind = "timeout"
    /\ settleCalls[2].kind = "error"
    /\ promise.state = "settled"
    /\ promise.outcome.error = Error(RequestTimeoutMessage)

----------------------------------------------------------------------------
(* Claims about failed reads of the saved credentials and about renaming *)

\* the entries of a list
EntriesOf(secrets) == {secrets[k] : k \in 1..Len(secrets)}

\* C35 (as claimed): a read that fails gives the empty list; saveSecret without
\* a storage writes nothing; and a saveSecret after a failed read leaves the
\* entries of other names in the store.
C35_ReadsNeverDestroyData ==
    LET c == calls["first"] IN
    /\ (c.kind # "none" /\ c.at \in {"writing", "returned"} /\ c.ready /\ ~c.readOk) =>
          c.secrets = <<>>
    /\ (c.kind = "save" /\ c.at = "returned" /\ ~c.ready) => Stored = c.before
    /\ (c.kind = "save" /\ c.at = "returned" /\ c.ready /\ ~c.readOk) =>
          \A e \in EntriesOf(c.before) : e.name # c.name => e \in EntriesOf(Stored)

\* C36 (as claimed): after a rename there is one entry of the new name, with
\* the old value and description, none of the old name, and the entries of
\* every other name are as they were.
C36_RenameMovesOneEntry ==
    dialog.at = "done" =>
        LET old == dialog.secret
            others(secrets) == {e \in EntriesOf(secrets) : e.name \notin {old.name, dialog.newName}}
        IN  /\ Cardinality({k \in 1..Len(Stored) : Stored[k].name = dialog.newName}) = 1
            /\ \A e \in EntriesOf(Stored) : e.name = dialog.newName =>
                  e.value = old.value /\ e.description = old.description
            /\ old.name \notin StoredNames
            /\ others(Stored) = others(dialog.before)

----------------------------------------------------------------------------
(* Claims about the .gitignore that initRepo creates *)

SelectFirstError == ErrorMessage(InitFailedPrefix \o SelectWorkspaceFirstMessage)

\* C34 (as claimed): the .gitignore that initRepo creates after `git init` is
\* written into the folder this initRepo call resolved, whatever folder an
\* earlier addGitignore chose, or if none did.
C34_GitignoreGoesToTheResolvedFolder ==
    /\ written \subseteq {currentFolder}
    /\ \A k \in 1..Len(messages) : messages[k] # SelectFirstError

----------------------------------------------------------------------------
(* GitTagOps.createTag, called again while a call is at one of its awaits. *)
(* Both calls are served by the one GitTagOps object that GitOperations    *)
(* holds, so they share its currentFolder.                                 *)

\* runGitCommand: getWorkspaceFolder reads currentFolder when the command is
\* started; without a folder it throws, and createTag's catch ends the call
RunsCommand(t, next) ==
    IF tagFolder = Undefined
    THEN [t EXCEPT !.at = "done", !.threw = TRUE]
    ELSE [t EXCEPT !.at = next, !.cwd = tagFolder]

\* the command is invoked
CreateTagStarts(slot) ==
    /\ tagOps[slot] = NoTagOp
    /\ tagOps' = [tagOps EXCEPT ![slot] =
                     [at |-> "selecting", resolved |-> Undefined, cwd |-> Undefined,
                      threw |-> FALSE, attempts |-> 0]]
    /\ UNCHANGED tagFolder

\* selectWorkspace returns: currentFolder is assigned what the resolver gave,
\* undefined included, and with a folder `git rev-parse HEAD` is started
SelectWorkspaceReturns(slot, folder) ==
    /\ tagOps[slot].at = "selecting"
    /\ tagFolder' = folder
    /\ tagOps' = [tagOps EXCEPT ![slot] =
                     IF folder = Undefined THEN [@ EXCEPT !.at = "done"]
                     ELSE [@ EXCEPT !.at = "revParse", !.resolved = folder, !.cwd = folder]]

\* `git rev-parse HEAD` ends: without commits the call returns, otherwise it
\* asks for the tag name
RevParseEnds(slot, ok) ==
    /\ tagOps[slot].at = "revParse"
    /\ tagOps' = [tagOps EXCEPT ![slot].at = IF ok THEN "askName" ELSE "done"]
    /\ UNCHANGED tagFolder

\* the tag name is entered, or the input box dismissed
AnswersTagName(slot, answered) ==
    /\ tagOps[slot].at = "askName"
    /\ tagOps' = [tagOps EXCEPT ![slot].at = IF answered THEN "askMessage" ELSE "done"]
    /\ UNCHANGED tagFolder

\* the tag message is entered and `git tag` is started
AnswersTagMessage(slot, answered) ==
    /\ tagOps[slot].at = "askMessage"
    /\ tagOps' = [tagOps EXCEPT ![slot] =
                     IF answered THEN RunsCommand(@, "tagging") ELSE [@ EXCEPT !.at = "done"]]
    /\ UNCHANGED tagFolder

\* `git tag` ends: a failure ends the call, otherwise it asks about pushing
TagEnds(slot, ok) ==
    /\ tagOps[slot].at = "tagging"
    /\ tagOps' = [tagOps EXCEPT ![slot].at = IF ok THEN "askPush" ELSE "done"]
    /\ UNCHANGED tagFolder

\* the push question is answered; on yes runGitCommandWithRetry starts its
\* first attempt
AnswersPush(slot, yes) ==
    /\ tagOps[slot].at = "askPush"
    /\ tagOps' = [tagOps EXCEPT ![slot] =
                     IF yes THEN [RunsCommand(@, "pushing") EXCEPT !.attempts = 1]
                     ELSE [@ EXCEPT !.at = "done"]]
    /\ UNCHANGED tagFolder

\* an attempt of the push failed for a transient cause and the delay is over:
\* the loop starts the next attempt
PushRetries(slot) ==
    /\ tagOps[slot].at = "pushing"
    /\ tagOps[slot].attempts < DefaultRetryCount
    /\ tagOps' = [tagOps EXCEPT ![slot] =
                     [RunsCommand(@, "pushing") EXCEPT !.attempts = @ + 1]]
    /\ UNCHANGED tagFolder

\* the push ends, pushed or failed for good
PushEnds(slot) ==
    /\ tagOps[slot].at = "pushing"
    /\ tagOps' = [tagOps EXCEPT ![slot].at = "done"]
    /\ UNCHANGED tagFolder

\* createTag returns
CreateTagReturns(slot) ==
    /\ tagOps[slot].at = "done"
    /\ tagOps' = [tagOps EXCEPT ![slot] = NoTagOp]
    /\ UNCHANGED tagFolder

TagNext ==
    \/ (\E slot \in Slots : CreateTagStarts(slot))
          /\ UNCHANGED <<vars, wvars, pvars, ovars, svars, uvars, cvars, waits, rvars, dialog>>
    \/ (\E slot \in Slots, folder \in Paths \cup {Undefined} :
            SelectWorkspaceReturns(slot, folder))
          /\ UNCHANGED <<vars, wvars, pvars, ovars, svars, uvars, cvars, waits, rvars, dialog>>
    \/ (\E slot \in Slots, ok \in BOOLEAN : RevParseEnds(slot, ok))
          /\ UNCHANGED <<vars, wvars, pvars, ovars, svars, uvars, cvars, waits, rvars, dialog>>
    \/ (\E slot \in Slots, answered \in BOOLEAN : AnswersTagName(slot, answered))
          /\ UNCHANGED <<vars, wvars, pvars, ovars, svars, uvars, cvars, waits, rvars, dialog>>
    \/ (\E slot \in Slots, answered \in BOOLEAN : AnswersTagMessage(slot, answered))
          /\ UNCHANGED <<vars, wvars, pvars, ovars, svars, uvars, cvars, waits, rvars, dialog>>
    \/ (\E slot \in Slots, ok \in BOOLEAN : TagEnds(slot, ok))
          /\ UNCHANGED <<vars, wvars, pvars, ovars, svars, uvars, cvars, waits, rvars, dialog>>
    \/ (\E slot \in Slots, yes \in BOOLEAN : AnswersPush(slot, yes))
          /\ UNCHANGED <<vars, wvars, pvars, ovars, svars, uvars, cvars, waits, rvars, dialog>>
    \/ (\E slot \in Slots : PushRetries(slot))
          /\ UNCHANGED <<vars, wvars, pvars, ovars, svars, uvars, cvars, waits, rvars, dialog>>
    \/ (\E slot \in Slots : PushEnds(slot))
          /\ UNCHANGED <<vars, wvars, pvars, ovars, svars, uvars, cvars, waits, rvars, dialog>>
    \/ (\E slot \in Slots : CreateTagReturns(slot))
          /\ UNCHANGED <<vars, wvars, pvars, ovars, svars, uvars, cvars, waits, rvars, dialog>>

SpecTags == Init /\ [][TagNext]_<<vars, wvars, xvars>>

\* C31 (as claimed): every git command of a createTag call runs in the
\* folder this call resolved, also when another call on the same object
\* resolves its folder in between.
C31_CommandsRunInTheOwnTarget ==
    \A slot \in Slots :
        tagOps[slot].at # "none" =>
            /\ tagOps[slot].cwd = tagOps[slot].resolved
            /\ ~tagOps[slot].threw

====
